---- MODULE Spec2Model ----
(***************************************************************************)
(* Model of the markdown2resume tools.                                     *)
(*                                                                         *)
(*   check_ats.py        the ATS compliance checker: main's loop over the  *)
(*                       file arguments, check_docx, check_pdf and         *)
(*                       print_results, one action per statement group.    *)
(*   convert_to_docx.py  the structured renderer: strip_emojis,            *)
(*                       process_text_with_links and add_hyperlink as      *)
(*                       operators over the parsed element tree, and the   *)
(*                       loop of create_docx, one action per branch.       *)
(*   convert_to_pdf.py   the page renderer: preprocess_markdown, one       *)
(*                       action per turn of its loop, and the steps of     *)
(*                       create_styled_html on the markup of the file.     *)
(*                                                                         *)
(* Text is a sequence of Unicode codepoints (integers), so that the emoji  *)
(* character class, str.strip, str.split, str.lower and the substring      *)
(* tests are computed as the code computes them.                           *)
(***************************************************************************)
EXTENDS Integers, Sequences, FiniteSets, TLC

VARIABLES
    args,       \* check_ats main: args.files, each path with what the filesystem holds there
    idx,        \* check_ats main: position of the for loop in args.files (1-based)
    pc,         \* the statement group control is at, in the tool that is running
    exit_code,  \* check_ats main: exit_code
    results,    \* check_docx / check_pdf: results (then main's results)
    pdf_text,   \* check_pdf: pdf_text (NoText is None)
    calls,      \* how many times each external tool was run for the current file
    out,        \* what the process has printed so far, one record per diagnostic or report
    soup,       \* create_docx: soup.children, the top-level nodes of the parsed tree
    elem,       \* create_docx: position of the for loop in soup.children (1-based)
    docx,       \* create_docx: doc, its paragraphs and its hyperlink relationships
    md_content, \* convert_to_pdf main: md_content, the text read and then preprocessed
    md_lines,   \* preprocess_markdown: lines
    line_no,    \* preprocess_markdown: i, the position of the while loop (0-based)
    processed_lines,  \* preprocess_markdown: processed_lines
    html_body,  \* create_styled_html: html_body
    tool,       \* the converter that is running: "convert_to_docx" or "convert_to_pdf"
    md_file,    \* a converter's main: md_file, with what the filesystem holds there
    output_dir, \* a converter's main: output_dir has been made by this run
    output_file,  \* a converter's main: output_file has been written by this run
    hash_seed,  \* the salt of the string hash of the process that is running
    typo_text,  \* split_into_chunks: text
    chunk_size, \* split_into_chunks: chunk_size
    typo_lines, \* split_into_chunks: lines
    line_idx,   \* split_into_chunks: position of the for loop in lines (1-based)
    chunks,     \* split_into_chunks: chunks
    current_chunk,  \* split_into_chunks: current_chunk
    current_size    \* split_into_chunks: current_size

vars == <<args, idx, pc, exit_code, results, pdf_text, calls, out, soup, elem, docx,
          md_content, md_lines, line_no, processed_lines, html_body,
          tool, md_file, output_dir, output_file, hash_seed,
          typo_text, chunk_size, typo_lines, line_idx, chunks, current_chunk, current_size>>

\* the variables of convert_to_pdf.py
page_vars == <<md_content, md_lines, line_no, processed_lines, html_body>>

\* the variables of the main of a converter
main_vars == <<tool, md_file, output_dir, output_file>>

\* the variables of split_into_chunks
chunk_vars == <<typo_text, chunk_size, typo_lines, line_idx, chunks, current_chunk,
                current_size>>

----------------------------------------------------------------------------
(* Bounds of the model                                                     *)

MaxFiles == 2
MaxParas == 2
MaxPages == 3
MaxBlocks == 2
MaxLines == 3
MaxText == 5
MaxChunkSize == 3

----------------------------------------------------------------------------
(* Text: sequences of codepoints                                           *)

\* "\n", the separator of str.split in check_pdf
NL == 10

\* str.isspace, on the ASCII whitespace characters
IsSpace(c) == c \in {32, 9, 10, 11, 12, 13}

\* one character of the class of EMOJI_RE
InEmojiClass(c) ==
    \/ c \in 128512..128591      \* 1f600-1f64f
    \/ c \in 127744..128511      \* 1f300-1f5ff
    \/ c \in 128640..128767      \* 1f680-1f6ff
    \/ c \in 127456..127487      \* 1f1e0-1f1ff
    \/ c \in 9986..10160         \* 2702-27b0
    \/ c \in 129280..129535      \* 1f900-1f9ff
    \/ c \in 9728..9983          \* 2600-26ff
    \/ c \in 65024..65039        \* fe00-fe0f
    \/ c = 8205                  \* 200d
    \/ c = 8288                  \* 2060
    \/ c \in 8986..8987          \* 231a-231b

\* EMOJI_RE.search(text) is not None
EmojiSearch(text) == \E i \in 1..Len(text) : InEmojiClass(text[i])

\* text.strip(): from the first to the last character that is not whitespace
Strip(s) ==
    LET keep == {i \in 1..Len(s) : ~IsSpace(s[i])}
    IN  IF keep = {} THEN <<>>
        ELSE SubSeq(s, CHOOSE i \in keep : \A j \in keep : i <= j,
                       CHOOSE i \in keep : \A j \in keep : j <= i)

\* needle in hay
Contains(hay, needle) ==
    \E i \in 1..(Len(hay) - Len(needle) + 1) :
        SubSeq(hay, i, i + Len(needle) - 1) = needle

\* text.lower(), on the ASCII letters
Lower(s) == [i \in 1..Len(s) |-> IF s[i] \in 65..90 THEN s[i] + 32 ELSE s[i]]

\* text.split(sep) for a one-character separator: the list of the fields
\* between the separators, one more than there are separators
SplitChar(s, sep) ==
    LET at == {i \in 1..Len(s) : s[i] = sep}
        \* the position of the k-th separator; 0 and Len(s) + 1 bracket them
        nth(k) == IF k = 0 THEN 0
                  ELSE IF k > Cardinality(at) THEN Len(s) + 1
                  ELSE CHOOSE i \in at : Cardinality({j \in at : j <= i}) = k
    IN  [k \in 1..(Cardinality(at) + 1) |-> SubSeq(s, nth(k - 1) + 1, nth(k) - 1)]

RECURSIVE Concat(_)
Concat(ss) == IF ss = <<>> THEN <<>> ELSE Head(ss) \o Concat(Tail(ss))

----------------------------------------------------------------------------
(* check_ats.py: the structured artifact as python-docx exposes it         *)

ATS_SAFE_FONTS ==
    {"Calibri", "Arial", "Times New Roman", "Helvetica", "Georgia", "Cambria"}

\* str.startswith("Heading") on the style names the artifacts use
StartsWithHeading(name) == name \in {"Heading 1", "Heading 2", "Heading 3"}

\* A run: font.name ("" is None) and font.color.rgb as str ("" is None)
Run(font, rgb) == [font |-> font, rgb |-> rgb]

\* A paragraph: style.name, text, runs
Para(style, text, runs) == [style |-> style, text |-> text, runs |-> runs]

\* The paragraphs the artifacts are built from.  "a" is 97, the rocket is
\* U+1F680 (128640).
HeadingPara == Para("Heading 1", <<97>>, <<Run("Calibri", "000000")>>)
PlainPara == Para("Normal", <<97, 32, 97>>, <<Run("", "")>>)
LinkPara == Para("Normal", <<97>>, <<Run("", ""), Run("", "0000FF")>>)
OddFontPara == Para("Normal", <<97>>, <<Run("Comic Sans MS", "")>>)
RedPara == Para("Normal", <<97>>, <<Run("Arial", "FF0000")>>)
EmojiPara == Para("List Bullet", <<97, 128640>>, <<Run("", "")>>)

ParaKinds == {HeadingPara, PlainPara, LinkPara, OddFontPara, RedPara, EmojiPara}

RECURSIVE SeqsUpTo(_, _)
SeqsUpTo(S, n) ==
    IF n = 0 THEN {<<>>}
    ELSE LET shorter == SeqsUpTo(S, n - 1)
         IN  shorter \cup {Append(q, x) : q \in shorter, x \in S}

\* A section's <w:cols>: present or not, and its num attribute after
\* .get(..., "1")
SectPr(has_cols, num) == [has_cols |-> has_cols, num |-> num]

SectionLists == {<<SectPr(FALSE, 1)>>, <<SectPr(TRUE, 1)>>, <<SectPr(TRUE, 2)>>,
                 <<SectPr(FALSE, 1), SectPr(TRUE, 3)>>}

\* doc.part.rels: the relationship types, by the substring the checks test
RelLists == {<<>>, <<"styles">>, <<"styles", "image">>, <<"hyperlink", "styles">>,
             <<"image", "hyperlink", "image">>, <<"hyperlink", "hyperlink">>}

TableCounts == {0, 1, 2}

\* The runs that no p.runs of doc.paragraphs holds: those of the paragraphs
\* inside table cells and those inside hyperlink elements
InnerRunLists == {<<>>, <<Run("Arial", "FF0000")>>}

DocxArtifacts ==
    [paragraphs : SeqsUpTo(ParaKinds, MaxParas),
     normal_font : {"Calibri"},
     tables : TableCounts,
     rels : RelLists,
     sections : SectionLists,
     inner_runs : InnerRunLists]

\* The artifact of a file that Document(path) cannot open
NoDoc == [paragraphs |-> <<>>, normal_font |-> "", tables |-> 0, rels |-> <<>>,
          sections |-> <<>>, inner_runs |-> <<>>]

\* A report entry is the tuple (status, check, detail).  The detail string is
\* kept as its message and the values formatted into it.
Detail(msg, n, items) == [msg |-> msg, n |-> n, items |-> items]
Entry(status, check, detail) == <<status, check, detail>>

Count(s, P(_)) == Cardinality({i \in 1..Len(s) : P(s[i])})

\* for p in doc.paragraphs: for run in p.runs
AllRuns(doc) ==
    UNION {{doc.paragraphs[i].runs[j] : j \in 1..Len(doc.paragraphs[i].runs)} :
              i \in 1..Len(doc.paragraphs)}

\* check_docx, 1. Heading styles
HeadingStylesCheck(doc) ==
    LET builtin_headings ==
            {i \in 1..Len(doc.paragraphs) : StartsWithHeading(doc.paragraphs[i].style)}
    IN  IF builtin_headings # {}
        THEN Entry("PASS", "Heading styles",
                   Detail("built-in headings used", Cardinality(builtin_headings), {}))
        ELSE Entry("WARN", "Heading styles",
                   Detail("No built-in heading styles found - ATS may not parse sections", 0, {}))

\* check_docx, 2. Fonts
FontsCheck(doc) ==
    LET fonts_used == {r.font : r \in AllRuns(doc)} \ {""}
        default_font == doc.normal_font
        unsafe == fonts_used \ ATS_SAFE_FONTS
    IN  IF unsafe # {}
        THEN Entry("WARN", "Fonts", Detail("Non-standard fonts", 0, unsafe))
        ELSE Entry("PASS", "Fonts",
                   Detail("ATS-safe", 0, {default_font} \cup fonts_used))

\* the tables check also warning about image relationships
TablesCheck_CountsImages(doc) ==
    IF doc.tables # 0 \/ Count(doc.rels, LAMBDA t : t = "image") # 0
    THEN Entry("WARN", "Tables",
               Detail("table(s) found - some ATS cannot parse these", doc.tables, {}))
    ELSE Entry("PASS", "Tables", Detail("None", 0, {}))

\* check_docx, 3. Tables
TablesCheck(doc) ==
    IF doc.tables # 0
    THEN Entry("WARN", "Tables",
               Detail("table(s) found - some ATS cannot parse these", doc.tables, {}))
    ELSE Entry("PASS", "Tables", Detail("None", 0, {}))

\* check_docx, 4. Images
ImagesCheck(doc) ==
    LET image_count == Count(doc.rels, LAMBDA t : t = "image")
    IN  IF image_count # 0
        THEN Entry("WARN", "Images",
                   Detail("image(s) found - ATS cannot read image text", image_count, {}))
        ELSE Entry("PASS", "Images", Detail("None", 0, {}))

\* check_docx, 5. Text colors
TextColorsCheck(doc) ==
    LET colors == {r.rgb : r \in AllRuns(doc)} \ {""}
        non_standard == {c \in colors : c \notin {"000000", "0000FF"}}
    IN  IF non_standard # {}
        THEN Entry("WARN", "Text colors",
                   Detail("Non-black/non-link colors", 0, non_standard))
        ELSE Entry("PASS", "Text colors",
                   Detail(IF "0000FF" \in colors
                          THEN "Black text only + hyperlink blue"
                          ELSE "Black text only", 0, {}))

\* check_docx, 6. Emoji
EmojiCheck(doc) ==
    LET emoji_found == \E i \in 1..Len(doc.paragraphs) : EmojiSearch(doc.paragraphs[i].text)
    IN  IF emoji_found
        THEN Entry("WARN", "Emoji",
                   Detail("Emoji characters found - some ATS strip or misparse these", 0, {}))
        ELSE Entry("PASS", "Emoji", Detail("None", 0, {}))

\* check_docx, 7. Layout (columns)
LayoutCheck(doc) ==
    LET multi_col == \E i \in 1..Len(doc.sections) :
                        doc.sections[i].has_cols /\ doc.sections[i].num > 1
    IN  IF multi_col
        THEN Entry("WARN", "Layout",
                   Detail("Multi-column layout detected - use single column for ATS", 0, {}))
        ELSE Entry("PASS", "Layout", Detail("Single column", 0, {}))

\* check_docx, 8. Hyperlinks
HyperlinksCheck(doc) ==
    LET link_count == Count(doc.rels, LAMBDA t : t = "hyperlink")
    IN  IF link_count # 0
        THEN Entry("PASS", "Hyperlinks", Detail("preserved as real links", link_count, {}))
        ELSE Entry("INFO", "Hyperlinks", Detail("None found", 0, {}))

\* check_docx, 9. Style usage summary: "k: v" for each style, sorted, one
\* item per style name with the count as its first character
StyleUsageCheck(doc) ==
    LET names == {doc.paragraphs[i].style : i \in 1..Len(doc.paragraphs)}
        style_counts == [k \in names |->
                            Count(doc.paragraphs, LAMBDA p : p.style = k)]
    IN  Entry("INFO", "Styles used",
              Detail("", Len(doc.paragraphs),
                     {ToString(style_counts[k]) \o " x " \o k : k \in names}))

\* check_docx: the report, the nine entries in the order the code appends them
check_docx(doc) ==
    <<HeadingStylesCheck(doc), FontsCheck(doc), TablesCheck(doc), ImagesCheck(doc),
      TextColorsCheck(doc), EmojiCheck(doc), LayoutCheck(doc), HyperlinksCheck(doc),
      StyleUsageCheck(doc)>>

----------------------------------------------------------------------------
(* check_ats.py: the paged artifact and the external tools                 *)

W_experience == <<101, 120, 112, 101, 114, 105, 101, 110, 99, 101>>
W_education == <<101, 100, 117, 99, 97, 116, 105, 111, 110>>
W_skills == <<115, 107, 105, 108, 108, 115>>
W_Pages == <<80, 97, 103, 101, 115, 58>>     \* "Pages:"

\* What pdftotext can print
T_full == <<69>> \o Tail(W_experience) \o <<NL>> \o <<69>> \o Tail(W_education)
              \o <<NL>> \o <<83>> \o Tail(W_skills) \o <<NL, 12>>
T_upper == <<69, 88, 80, 69, 82, 73, 69, 78, 67, 69, NL, NL,
             69, 68, 85, 67, 65, 84, 73, 79, 78, NL, 83, 75, 73, 76, 76, 83>>
T_noskills == W_experience \o <<NL>> \o W_education \o <<NL>>
T_emoji == W_experience \o <<32, 128640, NL>> \o W_education \o <<NL>> \o W_skills
T_star == W_skills \o <<32, 11088, NL>> \o W_education \o <<32>> \o W_experience
T_other == <<97, 32, 98, NL>>
T_blank == <<32, NL, NL, 12>>
T_empty == <<>>

PdfTexts == {T_full, T_upper, T_noskills, T_emoji, T_star, T_other, T_blank, T_empty}

\* The outcome of one subprocess.run: FileNotFoundError ("absent"),
\* TimeoutExpired ("timeout") or a CompletedProcess ("ran")
Outcome(kind, returncode, stdout) ==
    [kind |-> kind, returncode |-> returncode, stdout |-> stdout]

PdfToTextOutcomes ==
    {Outcome("absent", 0, <<>>), Outcome("timeout", 0, <<>>),
     Outcome("ran", 1, <<>>), Outcome("ran", 1, T_other)}
    \cup {Outcome("ran", 0, t) : t \in PdfTexts}

\* What pdfinfo prints for a document of n pages, and for one it cannot count
PdfInfoText(n) ==
    <<84, 58, 32, 97, NL>> \o W_Pages \o <<32, 32, 32>> \o <<48 + n>> \o <<NL>>
        \o <<80, 97, 103, 101, 32, 115, 105, 122, 101, 58, 32, 54, 49, 50, NL>>

PdfInfoNoPages == <<84, 58, 32, 97, NL>>

PdfInfoOutcomes ==
    {Outcome("absent", 0, <<>>), Outcome("timeout", 0, <<>>),
     Outcome("ran", 1, <<>>), Outcome("ran", 0, PdfInfoNoPages)}
    \cup {Outcome("ran", 0, PdfInfoText(n)) : n \in 1..MaxPages}

\* path.stat().st_size, in bytes: 100 KB, exactly 2048 KB, one byte more
StSizes == {102400, 2097152, 2097153}

PdfArtifacts ==
    [st_size : StSizes, pdftotext : PdfToTextOutcomes, pdfinfo : PdfInfoOutcomes]

NoPdf == [st_size |-> 0, pdftotext |-> Outcome("absent", 0, <<>>),
          pdfinfo |-> Outcome("absent", 0, <<>>)]

\* pdf_text: None, or the text pdftotext printed
NoText == [none |-> TRUE, text |-> <<>>]
SomeText(t) == [none |-> FALSE, text |-> t]

\* "if pdf_text:"
Truthy(t) == ~t.none /\ t.text # <<>>

\* f"{size_kb:.0f}" for size_kb = st_size / 1024 (no sample size is at .5)
FormatKB(st_size) == (st_size + 512) \div 1024

\* check_pdf, 1. File size: size_kb > 2048 with size_kb = st_size / 1024
FileSizeCheck(pdf) ==
    IF pdf.st_size > 2048 * 1024
    THEN Entry("WARN", "File size",
               Detail("KB - may exceed some ATS upload limits", FormatKB(pdf.st_size), {}))
    ELSE Entry("PASS", "File size", Detail("KB", FormatKB(pdf.st_size), {}))

\* the non-blank lines of pdf_text.strip().split("\n")
NonBlankLines(text) ==
    LET lines == SplitChar(Strip(text), NL)
    IN  Count(lines, LAMBDA l : Strip(l) # <<>>)

\* the entry with the statuses of the two except branches exchanged
TextExtractionCheck_AbsentWarns(proc) ==
    CASE proc.kind = "absent" ->
            Entry("WARN", "Text extraction",
                  Detail("pdftotext not installed (apt install poppler-utils)", 0, {}))
      [] proc.kind = "timeout" ->
            Entry("SKIP", "Text extraction", Detail("pdftotext timed out", 0, {}))
      [] proc.kind = "ran" /\ proc.returncode = 0 /\ Strip(proc.stdout) # <<>> ->
            Entry("PASS", "Text extraction",
                  Detail("lines extracted - text is selectable",
                         NonBlankLines(proc.stdout), {}))
      [] OTHER ->
            Entry("WARN", "Text extraction",
                  Detail("pdftotext returned no text - may be image-based", 0, {}))

\* check_pdf, 2. Text extraction: the entry for one outcome of pdftotext
TextExtractionCheck(proc) ==
    CASE proc.kind = "absent" ->
            Entry("SKIP", "Text extraction",
                  Detail("pdftotext not installed (apt install poppler-utils)", 0, {}))
      [] proc.kind = "timeout" ->
            Entry("WARN", "Text extraction", Detail("pdftotext timed out", 0, {}))
      [] proc.kind = "ran" /\ proc.returncode = 0 /\ Strip(proc.stdout) # <<>> ->
            Entry("PASS", "Text extraction",
                  Detail("lines extracted - text is selectable",
                         NonBlankLines(proc.stdout), {}))
      [] OTHER ->
            Entry("WARN", "Text extraction",
                  Detail("pdftotext returned no text - may be image-based", 0, {}))

\* check_pdf, 2: pdf_text after the try block
ExtractedText(proc) ==
    IF proc.kind = "ran" /\ proc.returncode = 0 /\ Strip(proc.stdout) # <<>>
    THEN SomeText(proc.stdout)
    ELSE NoText

\* check_pdf, 3. Emoji in extracted text
PdfEmojiCheck(text) ==
    IF EmojiSearch(text)
    THEN Entry("WARN", "Emoji", Detail("Emoji characters found in PDF text", 0, {}))
    ELSE Entry("PASS", "Emoji", Detail("None", 0, {}))

\* check_pdf, 4. Standard sections present
SectionsCheck(text) ==
    LET expected == {"experience", "education", "skills"}
        chars == [s \in expected |->
                     CASE s = "experience" -> W_experience
                       [] s = "education" -> W_education
                       [] s = "skills" -> W_skills]
        found == {s \in expected : Contains(Lower(text), chars[s])}
        missing == {s \in expected : ~Contains(Lower(text), chars[s])}
    IN  IF missing # {}
        THEN Entry("WARN", "Sections", Detail("Missing standard sections", 0, missing))
        ELSE Entry("PASS", "Sections", Detail("Found", 0, found))

\* str.startswith
StartsWith(s, prefix) ==
    Len(s) >= Len(prefix) /\ SubSeq(s, 1, Len(prefix)) = prefix

\* int(s) for a string of decimal digits
ParseInt(s) ==
    LET value[i \in 0..Len(s)] == IF i = 0 THEN 0 ELSE 10 * value[i - 1] + (s[i] - 48)
    IN  value[Len(s)]

\* check_pdf, 5. Page count: the entries the loop over pdfinfo's lines appends
\* (at most one: it breaks at the first "Pages:" line)
PageCountCheck(proc) ==
    IF proc.kind = "ran" /\ proc.returncode = 0
    THEN LET lines == SplitChar(proc.stdout, NL)
             hits == {i \in 1..Len(lines) : StartsWith(lines[i], W_Pages)}
         IN  IF hits = {} THEN <<>>
             ELSE LET line == lines[CHOOSE i \in hits : \A j \in hits : i <= j]
                      pages == ParseInt(Strip(SplitChar(line, 58)[2]))
                  IN  IF pages > 2
                      THEN <<Entry("WARN", "Page count",
                                   Detail("pages - consider condensing to 1-2", pages, {}))>>
                      ELSE <<Entry("PASS", "Page count", Detail("", pages, {}))>>
    ELSE <<>>

----------------------------------------------------------------------------
(* check_ats.py: the files named on the command line                       *)

\* One file argument: whether path.exists(), path.suffix, whether
\* Document(path) can open it, and the artifact it holds
File(exists, suffix, opens, doc, pdf) ==
    [exists |-> exists, suffix |-> suffix, opens |-> opens, doc |-> doc, pdf |-> pdf]

\* path.suffix.lower() on the suffixes the arguments use
SuffixLower(suffix) ==
    CASE suffix = ".DOCX" -> ".docx"
      [] suffix = ".Docx" -> ".docx"
      [] suffix = ".PDF" -> ".pdf"
      [] OTHER -> suffix

MissingFiles == {File(FALSE, x, FALSE, NoDoc, NoPdf) : x \in {".docx", ".pdf", ".txt"}}
UnsupportedFiles == {File(TRUE, x, FALSE, NoDoc, NoPdf) : x \in {".txt", ".md", ".doc", ""}}
\* an existing .docx that is no package: Document(path) raises
BrokenDocxFiles == {File(TRUE, x, FALSE, NoDoc, NoPdf) : x \in {".docx", ".DOCX"}}
DocxFiles == {File(TRUE, ".docx", TRUE, d, NoPdf) : d \in DocxArtifacts}
PdfFiles == {File(TRUE, ".pdf", FALSE, NoDoc, a) : a \in PdfArtifacts}

AllFiles == MissingFiles \cup UnsupportedFiles \cup BrokenDocxFiles \cup DocxFiles \cup PdfFiles

\* A few files of each kind, for the runs over several arguments
Doc(paragraphs, tables, rels, sections) ==
    [paragraphs |-> paragraphs, normal_font |-> "Calibri", tables |-> tables,
     rels |-> rels, sections |-> sections, inner_runs |-> <<>>]

CleanDoc == Doc(<<HeadingPara, LinkPara>>, 0, <<"styles", "hyperlink">>, <<SectPr(FALSE, 1)>>)
PlainDoc == Doc(<<HeadingPara, PlainPara>>, 0, <<"styles">>, <<SectPr(TRUE, 1)>>)

\* artifacts with at least one table and at least one image relationship
TableImageDocs ==
    {Doc(<<p>>, t, r, <<SectPr(FALSE, 1)>>) :
        p \in {HeadingPara, EmojiPara}, t \in {1, 2},
        r \in {<<"image">>, <<"image", "hyperlink", "image">>}}
ImageDoc == Doc(<<HeadingPara>>, 0, <<"image">>, <<SectPr(FALSE, 1)>>)
NoHeadingDoc == Doc(<<PlainPara>>, 0, <<>>, <<SectPr(FALSE, 1)>>)

CleanPdf == [st_size |-> 102400, pdftotext |-> Outcome("ran", 0, T_full),
             pdfinfo |-> Outcome("ran", 0, PdfInfoText(1))]
NoToolsPdf == [st_size |-> 102400, pdftotext |-> Outcome("absent", 0, <<>>),
               pdfinfo |-> Outcome("absent", 0, <<>>)]
SkipPdf == [st_size |-> 102400, pdftotext |-> Outcome("absent", 0, <<>>),
            pdfinfo |-> Outcome("ran", 0, PdfInfoText(2))]
TimeoutPdf == [st_size |-> 102400, pdftotext |-> Outcome("timeout", 0, <<>>),
               pdfinfo |-> Outcome("ran", 0, PdfInfoText(1))]
LongPdf == [st_size |-> 2097153, pdftotext |-> Outcome("ran", 0, T_upper),
            pdfinfo |-> Outcome("ran", 0, PdfInfoText(MaxPages))]

SampleFiles ==
    {File(FALSE, ".docx", FALSE, NoDoc, NoPdf),
     File(TRUE, ".txt", FALSE, NoDoc, NoPdf),
     File(TRUE, ".docx", FALSE, NoDoc, NoPdf)}
    \cup {File(TRUE, ".docx", TRUE, d, NoPdf) :
            d \in {CleanDoc, PlainDoc, ImageDoc, NoHeadingDoc} \cup TableImageDocs}
    \cup {File(TRUE, ".DOCX", TRUE, CleanDoc, NoPdf), File(TRUE, ".PDF", FALSE, NoDoc, CleanPdf)}
    \cup {File(TRUE, ".pdf", FALSE, NoDoc, a) :
            a \in {CleanPdf, NoToolsPdf, SkipPdf, TimeoutPdf, LongPdf}}

\* One thing the process printed: an error line ("notfound", "unsupported")
\* or a report as print_results prints it
OutLine(kind, arg, entries, pass_count, check_count, warn_count, result) ==
    [kind |-> kind, arg |-> arg, entries |-> entries, pass_count |-> pass_count,
     check_count |-> check_count, warn_count |-> warn_count, result |-> result]

ErrorLine(kind, arg) == OutLine(kind, arg, <<>>, 0, 0, 0, "")

\* print_results with every status other than PASS and INFO counted as a
\* warning
print_results_SkipWarns(file_path, rs) ==
    LET pass_count == Count(rs, LAMBDA r : r[1] = "PASS")
        warn_count == Count(rs, LAMBDA r : r[1] \notin {"PASS", "INFO"})
        check_count == Count(rs, LAMBDA r : r[1] \in {"PASS", "WARN"})
    IN  OutLine("report", file_path, rs, pass_count, check_count, warn_count,
                IF warn_count = 0 THEN "ATS ready" ELSE "warning(s)")

\* print_results: the table of entries and the result line
print_results(file_path, rs) ==
    LET pass_count == Count(rs, LAMBDA r : r[1] = "PASS")
        warn_count == Count(rs, LAMBDA r : r[1] = "WARN")
        check_count == Count(rs, LAMBDA r : r[1] \in {"PASS", "WARN"})
    IN  OutLine("report", file_path, rs, pass_count, check_count, warn_count,
                IF warn_count = 0 THEN "ATS ready" ELSE "warning(s)")

\* main: any(r[0] == "WARN" for r in results)
AnyWarn(rs) == \E i \in 1..Len(rs) : rs[i][1] = "WARN"

----------------------------------------------------------------------------
(* convert_to_docx.py: the element tree, the document and the renderer     *)

\* EMOJI_RE.sub("", text): the text without the characters of the class,
\* which convert_to_docx.py spells as check_ats.py does
EmojiSub(text) == SelectSeq(text, LAMBDA c : ~InEmojiClass(c))

strip_emojis(text) == Strip(EmojiSub(text))

\* A node of the parsed tree.  A NavigableString has no name ("" is None);
\* a Tag has a name, the values of its href attribute ({} when it has none,
\* so that get("href") is None) and its children.
NavigableString(s) == [name |-> "", href |-> {}, string |-> s, children |-> <<>>]
Tag(name, children) == [name |-> name, href |-> {}, string |-> <<>>, children |-> children]
Anchor(url, children) == [name |-> "a", href |-> {url}, string |-> <<>>, children |-> children]

\* element.get_text(): the strings under the element, joined
RECURSIVE get_text(_)
get_text(node) ==
    IF node.name = "" THEN node.string
    ELSE Concat([i \in 1..Len(node.children) |-> get_text(node.children[i])])

\* element.find_all(name): the descendants of that name, in document order
RECURSIVE find_all(_, _)
find_all(node, name) ==
    Concat([i \in 1..Len(node.children) |->
              LET child == node.children[i]
              IN  (IF child.name = name THEN <<child>> ELSE <<>>)
                      \o find_all(child, name)])

\* The letters of a tag name
TagName(name) ==
    CASE name = "a" -> <<97>>
      [] name = "p" -> <<112>>
      [] name = "li" -> <<108, 105>>
      [] name = "ul" -> <<117, 108>>
      [] name = "ol" -> <<111, 108>>
      [] name = "em" -> <<101, 109>>
      [] name = "strong" -> <<115, 116, 114, 111, 110, 103>>
      [] name = "code" -> <<99, 111, 100, 101>>
      [] name = "h1" -> <<104, 49>>
      [] name = "h2" -> <<104, 50>>
      [] name = "h3" -> <<104, 51>>
      [] name = "h4" -> <<104, 52>>
      [] name = "h5" -> <<104, 53>>
      [] name = "h6" -> <<104, 54>>
      [] name = "blockquote" -> <<98, 108, 111, 99, 107, 113, 117, 111, 116, 101>>

\* The entity a character of a string is written as: & < > are escaped
Escape(s) ==
    Concat([i \in 1..Len(s) |->
              CASE s[i] = 38 -> <<38, 97, 109, 112, 59>>
                [] s[i] = 60 -> <<38, 108, 116, 59>>
                [] s[i] = 62 -> <<38, 103, 116, 59>>
                [] OTHER -> <<s[i]>>])

\* str(element): the markup of the element
RECURSIVE str(_)
str(node) ==
    IF node.name = "" THEN Escape(node.string)
    ELSE LET attrs == IF node.href = {} THEN <<>>
                      ELSE <<32, 104, 114, 101, 102, 61, 34>>
                               \o (CHOOSE u \in node.href : TRUE) \o <<34>>
         IN  <<60>> \o TagName(node.name) \o attrs \o <<62>>
                 \o Concat([i \in 1..Len(node.children) |-> str(node.children[i])])
                 \o <<60, 47>> \o TagName(node.name) \o <<62>>

\* s.split(sep) for a separator that is not empty
RECURSIVE SplitStr(_, _)
SplitStr(s, sep) ==
    LET at == {i \in 1..(Len(s) - Len(sep) + 1) : SubSeq(s, i, i + Len(sep) - 1) = sep}
    IN  IF at = {} THEN <<s>>
        ELSE LET i == CHOOSE i \in at : \A j \in at : i <= j
             IN  <<SubSeq(s, 1, i - 1)>>
                     \o SplitStr(SubSeq(s, i + Len(sep), Len(s)), sep)

\* s.replace(old, "")
Remove(s, old) == Concat(SplitStr(s, old))

LI_OPEN == <<60, 108, 105, 62>>                                   \* "<li>"
LI_CLOSE == <<60, 47, 108, 105, 62>>                              \* "</li>"
STRONG_OPEN == <<60, 115, 116, 114, 111, 110, 103, 62>>           \* "<strong>"
STRONG_CLOSE == <<60, 47, 115, 116, 114, 111, 110, 103, 62>>      \* "</strong>"
PIPE_RUN == <<32, 124, 32>>                                       \* " | "

\* re.split(r"(<strong>.*?</strong>)", s): the text between the matches and
\* the matches, alternating.  A match starts at the leftmost "<strong>" that
\* has a "</strong>" after it with no newline in between, and ends at the
\* first such "</strong>".
RECURSIVE re_split_strong(_)
re_split_strong(s) ==
    LET closes(i) == {j \in (i + 8)..(Len(s) - 8) :
                          /\ SubSeq(s, j, j + 8) = STRONG_CLOSE
                          /\ \A k \in (i + 8)..(j - 1) : s[k] # NL}
        starts == {i \in 1..(Len(s) - 16) :
                       SubSeq(s, i, i + 7) = STRONG_OPEN /\ closes(i) # {}}
    IN  IF starts = {} THEN <<s>>
        ELSE LET i == CHOOSE i \in starts : \A k \in starts : i <= k
                 j == CHOOSE j \in closes(i) : \A k \in closes(i) : j <= k
             IN  <<SubSeq(s, 1, i - 1), SubSeq(s, i, j + 8)>>
                     \o re_split_strong(SubSeq(s, j + 9, Len(s)))

\* What a paragraph holds: a run (kind "r") or a hyperlink element with its
\* run inside (kind "hyperlink", target the target of its relationship).
\* size is in points, 0 where the font has none; rgb "" is no colour.
Item(kind, text, target) ==
    [kind |-> kind, text |-> text, target |-> target, name |-> "", size |-> 0,
     bold |-> FALSE, italic |-> FALSE, underline |-> FALSE, rgb |-> ""]

\* paragraph.add_run(text)
add_run(text) == Item("r", text, {})

\* add_hyperlink(paragraph, text, url): the run of the text, blue and
\* underlined, moved into a hyperlink element appended to the paragraph
add_hyperlink(text, url) ==
    [Item("hyperlink", text, url) EXCEPT !.rgb = "0000FF", !.underline = TRUE]

\* A paragraph: style, alignment ("" is none), content, and its format
\* (left_indent in EMU, space_after in points, 0 is none)
Paragraph(style, alignment, content) ==
    [style |-> style, alignment |-> alignment, content |-> content,
     left_indent |-> 0, space_after |-> 0]

\* Document() with the Normal style set to Calibri 11
NewDocument ==
    [paragraphs |-> <<>>, rels |-> {}, normal |-> [name |-> "Calibri", size |-> 11]]

\* doc.add_heading(text, level) and the font given to its runs; a heading
\* without text has no run
\* add_heading that ignores the level
add_heading_Level1(text, level, alignment, size, bold) ==
    LET run == [add_run(text) EXCEPT !.name = "Calibri", !.size = size,
                                     !.bold = bold, !.rgb = "000000"]
    IN  Paragraph("Heading 1", alignment, IF text = <<>> THEN <<>> ELSE <<run>>)

add_heading(text, level, alignment, size, bold) ==
    LET style == CASE level = 1 -> "Heading 1"
                   [] level = 2 -> "Heading 2"
                   [] level = 3 -> "Heading 3"
        run == [add_run(text) EXCEPT !.name = "Calibri", !.size = size,
                                     !.bold = bold, !.rgb = "000000"]
    IN  Paragraph(style, alignment, IF text = <<>> THEN <<>> ELSE <<run>>)

\* process_text_with_links(paragraph, element): what it appends
RECURSIVE process_text_with_links(_)
process_text_with_links(element) ==
    IF element.name = "a"
    THEN <<add_hyperlink(get_text(element), element.href)>>
    ELSE Concat([i \in 1..Len(element.children) |->
                   LET child == element.children[i]
                   IN  IF child.name = ""
                       THEN IF Strip(child.string) # <<>>
                            THEN <<add_run(child.string)>> ELSE <<>>
                       ELSE IF child.name = "a"
                       THEN <<add_hyperlink(get_text(child), child.href)>>
                       ELSE process_text_with_links(child)])

\* "|" in text and "@" in text
IsContactLine(text) ==
    /\ \E i \in 1..Len(text) : text[i] = 124
    /\ \E i \in 1..Len(text) : text[i] = 64

\* the parts of a contact line, each stripped
ContactParts(text) ==
    LET parts == SplitChar(text, 124)
    IN  [i \in 1..Len(parts) |-> Strip(parts[i])]

\* link_element: the first child that is an anchor whose stripped text is in
\* the part, as a list of one, or the empty list for None
LinkElement(element, part) ==
    LET hits == {i \in 1..Len(element.children) :
                     /\ element.children[i].name = "a"
                     /\ Contains(part, Strip(get_text(element.children[i])))}
    IN  IF hits = {} THEN <<>>
        ELSE <<element.children[CHOOSE i \in hits : \A j \in hits : i <= j]>>

\* part.split(link_element.get_text()) raises ValueError on an empty separator
PartRaises(element, part) ==
    LET found == LinkElement(element, part)
    IN  found # <<>> /\ get_text(found[1]) = <<>>

\* ContactPartItems with a separator after the last part too
ContactPartItems_TrailingSep(element, part, last) ==
    (IF LinkElement(element, part) # <<>>
     THEN <<add_hyperlink(get_text(LinkElement(element, part)[1]),
                          LinkElement(element, part)[1].href)>>
     ELSE <<add_run(part)>>) \o <<add_run(PIPE_RUN)>>

\* What one part of a contact line appends, and the separator after it
ContactPartItems(element, part, last) ==
    LET found == LinkElement(element, part)
        link_text == get_text(found[1])
        fields == SplitStr(part, link_text)
        before_link == fields[1]
        after_link == IF Len(fields) > 1 THEN fields[2] ELSE <<>>
    IN  (IF found # <<>>
         THEN (IF before_link # <<>> THEN <<add_run(before_link)>> ELSE <<>>)
                  \o <<add_hyperlink(link_text, found[1].href)>>
                  \o (IF after_link # <<>> THEN <<add_run(after_link)>> ELSE <<>>)
         ELSE <<add_run(part)>>)
            \o (IF last THEN <<>> ELSE <<add_run(PIPE_RUN)>>)

\* p.runs[0].font.size = Pt(10), where p.runs are the runs that are children
\* of the paragraph: a run inside a hyperlink element is not one of them
FirstRunSized(content) ==
    LET runs == {i \in 1..Len(content) : content[i].kind = "r"}
    IN  IF runs = {} THEN content
        ELSE [content EXCEPT ![CHOOSE i \in runs : \A j \in runs : i <= j].size = 10]

\* The contact-line paragraph after the first n parts
ContactParagraph(element, text, n) ==
    LET parts == ContactParts(text)
        content == Concat([i \in 1..n |->
                             ContactPartItems(element, parts[i], i = Len(parts))])
    IN  Paragraph("Normal", "CENTER",
                  IF n = Len(parts) THEN FirstRunSized(content) ELSE content)

\* The paragraph of a list item
ListItemParagraph(li) ==
    LET strong_tags == find_all(li, "strong")
        text == Remove(Remove(str(li), LI_OPEN), LI_CLOSE)
        parts == re_split_strong(text)
        run(part) ==
            IF StartsWith(part, STRONG_OPEN)
            THEN [add_run(strip_emojis(Remove(Remove(part, STRONG_OPEN), STRONG_CLOSE)))
                     EXCEPT !.bold = TRUE]
            ELSE add_run(strip_emojis(part))
        content == IF strong_tags # <<>>
                   THEN [i \in 1..Len(parts) |-> run(parts[i])]
                   ELSE <<add_run(strip_emojis(get_text(li)))>>
    IN  [Paragraph("List Bullet", "", content)
            EXCEPT !.left_indent = 457200, !.space_after = 3]

----------------------------------------------------------------------------
(* convert_to_pdf.py: the text, the markup and the preprocessing           *)

\* before convert_to_pdf has read anything
NoPage ==
    /\ md_content = <<>>
    /\ md_lines = <<>>
    /\ line_no = 0
    /\ processed_lines = <<>>
    /\ html_body = <<>>

\* split_into_chunks has not been called
NoChunks ==
    /\ typo_text = <<>>
    /\ chunk_size = 1
    /\ typo_lines = <<>>
    /\ line_idx = 1
    /\ chunks = <<>>
    /\ current_chunk = <<>>
    /\ current_size = 0

\* a path and what the filesystem holds there: md_file.exists(),
\* md_file.suffix and the text that open(md_file).read() returns
MdFile(exists, suffix, content) ==
    [exists |-> exists, suffix |-> suffix, content |-> content]

\* no converter is running
NoMain ==
    /\ tool = "check_ats"
    /\ md_file = MdFile(FALSE, "", <<>>)
    /\ output_dir = FALSE
    /\ output_file = FALSE
    /\ hash_seed = 0
    /\ NoChunks

\* the main of a converter has made output_dir and read a markdown file of
\* this content
HasRead(name, content) ==
    /\ tool = name
    /\ md_file = MdFile(TRUE, ".md", content)
    /\ output_dir = TRUE
    /\ output_file = FALSE
    /\ hash_seed = 0
    /\ NoChunks

\* strip_emojis of convert_to_pdf.py: EMOJI_RE.sub("", text), not stripped
pdf_strip_emojis(text) == SelectSeq(text, LAMBDA c : ~InEmojiClass(c))

\* sep.join(list)
RECURSIVE Join(_, _)
Join(ss, sep) ==
    IF ss = <<>> THEN <<>>
    ELSE IF Len(ss) = 1 THEN ss[1]
    ELSE ss[1] \o sep \o Join(Tail(ss), sep)

STARS == <<42, 42>>                     \* "**"
H3_PREFIX == <<35, 35, 35, 32>>         \* "### "

\* line.strip().startswith("**") and "**" in line[2:]
IsTitleLine(line) ==
    /\ StartsWith(Strip(line), STARS)
    /\ Contains(SubSeq(line, 3, Len(line)), STARS)

\* next_line and not next_line.startswith("#") and not
\* next_line.startswith("■"), for the stripped next line
IsSubtitleLine(next_line) ==
    /\ next_line # <<>>
    /\ ~StartsWith(next_line, <<35>>)
    /\ ~StartsWith(next_line, <<9632>>)

\* the while loop at line i takes the title/subtitle branch
TakesPair(ls, i) ==
    /\ IsTitleLine(ls[i + 1])
    /\ i + 1 < Len(ls)
    /\ IsSubtitleLine(Strip(ls[i + 2]))

\* The markup markdown2 makes of one span of text: **x** is <strong>, *x* is
\* <em>, where x starts and ends with a character that is not whitespace
RECURSIVE Inline(_)
Inline(s) ==
    LET closes(i, w) == {j \in (i + w + 1)..(Len(s) - w + 1) :
                             /\ SubSeq(s, j, j + w - 1) = SubSeq(STARS, 1, w)
                             /\ ~IsSpace(s[j - 1])}
        opens(w) == {i \in 1..(Len(s) - 2 * w) :
                         /\ SubSeq(s, i, i + w - 1) = SubSeq(STARS, 1, w)
                         /\ ~IsSpace(s[i + w])
                         /\ closes(i, w) # {}}
        span(w, name) ==
            LET i == CHOOSE i \in opens(w) : \A k \in opens(w) : i <= k
                j == CHOOSE j \in closes(i, w) : \A k \in closes(i, w) : j <= k
            IN  Inline(SubSeq(s, 1, i - 1))
                    \o <<Tag(name, Inline(SubSeq(s, i + w, j - 1)))>>
                    \o Inline(SubSeq(s, j + w, Len(s)))
    IN  IF opens(2) # {} THEN span(2, "strong")
        ELSE IF opens(1) # {} THEN span(1, "em")
        ELSE IF s = <<>> THEN <<>> ELSE <<NavigableString(s)>>

\* a line that markdown2 makes a heading of: 1 to 6 "#" at its start and
\* text after them
HeaderLevel(line) ==
    LET hashes == {n \in 1..Len(line) : \A k \in 1..n : line[k] = 35}
    IN  Cardinality(hashes)

IsHeaderLine(line) ==
    /\ HeaderLevel(line) \in 1..6
    /\ Strip(SubSeq(line, HeaderLevel(line) + 1, Len(line))) # <<>>

IsBlankLine(line) == Strip(line) = <<>>

HeaderName(n) ==
    CASE n = 1 -> "h1" [] n = 2 -> "h2" [] n = 3 -> "h3"
      [] n = 4 -> "h4" [] n = 5 -> "h5" [] n = 6 -> "h6"

\* the heading of a header line
HeaderOf(line) ==
    Tag(HeaderName(HeaderLevel(line)),
        Inline(Strip(SubSeq(line, HeaderLevel(line) + 1, Len(line)))))

\* The lines of a text in groups: a group ends before a blank line and
\* after a header line.  Each group is a pair of the positions of its first
\* and last line.
Groups(ls) ==
    LET first(i) == /\ ~IsBlankLine(ls[i])
                    /\ (i = 1 \/ IsBlankLine(ls[i - 1]) \/ IsHeaderLine(ls[i - 1]))
        last(i) == /\ ~IsBlankLine(ls[i])
                   /\ (i = Len(ls) \/ IsBlankLine(ls[i + 1]) \/ IsHeaderLine(ls[i]))
        firsts == {i \in 1..Len(ls) : first(i)}
        nth(k) == CHOOSE i \in firsts : Cardinality({j \in firsts : j <= i}) = k
        end(i) == CHOOSE j \in i..Len(ls) :
                      last(j) /\ \A k \in i..(j - 1) : ~last(k)
    IN  [k \in 1..Cardinality(firsts) |-> <<nth(k), end(nth(k))>>]

\* The children of a paragraph or list item made of the lines i..j: the
\* lines before a closing header line as one span, and the heading
TextNodes(ls, i, j, skip) ==
    LET text_to(k) == Join([n \in 1..(k - i + 1) |->
                               IF n = 1 THEN SubSeq(ls[i], skip + 1, Len(ls[i]))
                               ELSE ls[i + n - 1]], <<NL>>)
        lstrip(s) == IF Strip(s) = <<>> THEN <<>>
                     ELSE SubSeq(s, CHOOSE n \in 1..Len(s) :
                                       ~IsSpace(s[n]) /\ \A m \in 1..(n - 1) : IsSpace(s[m]),
                                 Len(s))
    IN  IF i < j /\ IsHeaderLine(ls[j])
        THEN Inline(lstrip(text_to(j - 1) \o <<NL>>)) \o <<HeaderOf(ls[j])>>
        ELSE Inline(lstrip(text_to(j)))

DASH == <<45, 32>>                      \* "- "

IsListGroup(ls, g) == StartsWith(ls[g[1]], DASH)

\* The items of the list made of the lines i..j, one for each line that
\* starts with "- ", with the "\n" between them
ListNodes(ls, i, j) ==
    LET starts == {n \in i..j : StartsWith(ls[n], DASH)}
        nth(k) == CHOOSE n \in starts : Cardinality({m \in starts : m <= n}) = k
        until(k) == IF k = Cardinality(starts) THEN j ELSE nth(k + 1) - 1
    IN  <<NavigableString(<<NL>>)>>
            \o Concat([k \in 1..Cardinality(starts) |->
                         <<Tag("li", TextNodes(ls, nth(k), until(k), 2)),
                           NavigableString(<<NL>>)>>])

\* The top-level elements markdown2 makes of a text, for the lines of the
\* model: a heading for a header line that starts a group, a list for a
\* group that starts with "- ", a paragraph for any other group
MarkdownBlocks(text) ==
    LET ls == SplitChar(text, NL)
        groups == Groups(ls)
    IN  [k \in 1..Len(groups) |->
            LET i == groups[k][1]
                j == groups[k][2]
            IN  IF IsHeaderLine(ls[i]) THEN HeaderOf(ls[i])
                ELSE IF IsListGroup(ls, groups[k])
                THEN Tag("ul", ListNodes(ls, i, j))
                ELSE Tag("p", TextNodes(ls, i, j, 0))]

\* markdown2.markdown(text): the markup of the elements, a blank line
\* between them
Markdown(text) ==
    LET blocks == MarkdownBlocks(text)
    IN  IF blocks = <<>> THEN <<NL>>
        ELSE Join([k \in 1..Len(blocks) |-> str(blocks[k])], <<NL, NL>>) \o <<NL>>

\* parse_markdown of convert_to_docx.py on a file of this content: the
\* children of the soup that markdown2's markup parses to
parse_markdown(content) == MarkdownBlocks(content)

H1_OPEN == <<60, 104, 49, 62>>                    \* "<h1>"
H1_CLOSE == <<60, 47, 104, 49, 62>>               \* "</h1>"
P_OPEN == <<60, 112, 62>>                         \* "<p>"
P_CLOSE == <<60, 47, 112, 62>>                    \* "</p>"
\* '<div class="header-box">' and "</div>"
DIV_OPEN == <<60, 100, 105, 118, 32, 99, 108, 97, 115, 115, 61, 34, 104, 101, 97,
              100, 101, 114, 45, 98, 111, 120, 34, 62>>
DIV_CLOSE == <<60, 47, 100, 105, 118, 62>>

\* s has sub at position i
At(s, i, sub) == i >= 1 /\ i + Len(sub) - 1 <= Len(s) /\ SubSeq(s, i, i + Len(sub) - 1) = sub

\* (?:\s*<p>.*?</p>) from position i: the position after the first "</p>"
\* that follows a "<p>" found after whitespace, or 0 when there is none
ParagraphEnd(s, i) ==
    LET opens == {q \in i..Len(s) :
                      At(s, q, P_OPEN) /\ \A k \in i..(q - 1) : IsSpace(s[k])}
        q == CHOOSE q \in opens : TRUE
        closes == {r \in (q + 3)..Len(s) : At(s, r, P_CLOSE)}
    IN  IF opens = {} \/ closes = {} THEN 0
        ELSE (CHOOSE r \in closes : \A k \in closes : r <= k) + 4

\* re.sub(r"(<h1>.*?</h1>(?:\s*<p>.*?</p>){1,2})", wrap_header, s, count=1,
\* flags=re.DOTALL): the match starts at the leftmost "<h1>" that has, at
\* any distance, a "</h1>" followed by a paragraph; it runs to the first
\* such "</h1>", that paragraph and the one after it, if any
WrapHeader(s) ==
    LET ends(i) == {j \in (i + 4)..Len(s) :
                        At(s, j, H1_CLOSE) /\ ParagraphEnd(s, j + 5) # 0}
        starts == {i \in 1..Len(s) : At(s, i, H1_OPEN) /\ ends(i) # {}}
        i == CHOOSE i \in starts : \A k \in starts : i <= k
        j == CHOOSE j \in ends(i) : \A k \in ends(i) : j <= k
        one == ParagraphEnd(s, j + 5)
        two == ParagraphEnd(s, one)
        stop == IF two # 0 THEN two ELSE one
    IN  IF starts = {} THEN s
        ELSE SubSeq(s, 1, i - 1) \o DIV_OPEN \o SubSeq(s, i, stop - 1)
                 \o DIV_CLOSE \o SubSeq(s, stop, Len(s))

----------------------------------------------------------------------------
(* check_ats.py: the strings of a report and a second invocation           *)

\* check_pdf(path): the entries of its five blocks, in order
check_pdf(pdf) ==
    LET text == ExtractedText(pdf.pdftotext)
    IN  <<FileSizeCheck(pdf), TextExtractionCheck(pdf.pdftotext)>>
            \o (IF Truthy(text)
                THEN <<PdfEmojiCheck(text.text), SectionsCheck(text.text)>>
                ELSE <<>>)
            \o PageCountCheck(pdf.pdfinfo)

\* the salts of the string hash that processes are started with
HashSeeds == {0, 1}

\* the sequences that hold every element of S once
Perms(S) ==
    {q \in [1..Cardinality(S) -> S] : \A i, j \in 1..Cardinality(S) : i # j => q[i] # q[j]}

Reverse(q) == [i \in 1..Len(q) |-> q[Len(q) + 1 - i]]

\* The order in which a process iterates a set of str: it follows the hashes
\* of the strings, which are salted per process, so that two processes may
\* go through the same set in different orders
IterationOrder(S, seed) ==
    LET q == CHOOSE q \in Perms(S) : TRUE
    IN  IF seed = 0 THEN q ELSE Reverse(q)

\* An entry with the items of its detail in the order ", ".join puts them:
\* the iteration order of the set for the fonts and the colours (after the
\* default font, for the fonts that pass), one order for the lists and the
\* sorted items of the other entries
Joined(entry, default_font, seed) ==
    LET items == entry[3].items
        order ==
            IF entry[2] = "Fonts" /\ entry[1] = "PASS"
            THEN <<default_font>> \o IterationOrder(items \ {default_font}, seed)
            ELSE IF entry[2] \in {"Fonts", "Text colors"}
            THEN IterationOrder(items, seed)
            ELSE IterationOrder(items, 0)
    IN  <<entry[1], entry[2], [entry[3] EXCEPT !.items = order]>>

\* the report of one file, as the strings a process with this seed builds
ReportStrings(f, seed) ==
    LET rs == IF SuffixLower(f.suffix) = ".docx" THEN check_docx(f.doc) ELSE check_pdf(f.pdf)
    IN  [k \in 1..Len(rs) |-> Joined(rs[k], f.doc.normal_font, seed)]

----------------------------------------------------------------------------
(* check_ats.py: main, check_docx and check_pdf as a state machine         *)

NoCalls == [pdftotext |-> 0, pdfinfo |-> 0]

\* The state at the entry of main, for a set of possible argument lists
InitMain(arglists) ==
    /\ args \in arglists
    /\ idx = 1
    /\ pc = "loop"
    /\ exit_code = 0
    /\ results = <<>>
    /\ pdf_text = NoText
    /\ calls = NoCalls
    /\ out = <<>>
    /\ soup = <<>>
    /\ elem = 1
    /\ docx = NewDocument
    /\ NoPage
    /\ NoMain

ArgLists == SeqsUpTo(SampleFiles, MaxFiles) \ {<<>>}

\* Several arguments, each one of the sample files
Init == InitMain(ArgLists)

\* One argument, any file
InitFile == InitMain({<<f>> : f \in AllFiles})

cur == args[idx]

AtLoop == pc = "loop" /\ idx <= Len(args)

\* the missing-path branch without "exit_code = 1"
MainNotFound_NoExitCode ==
    /\ AtLoop
    /\ ~cur.exists
    /\ out' = Append(out, ErrorLine("notfound", idx))
    /\ idx' = idx + 1
    /\ UNCHANGED <<args, pc, exit_code, results, pdf_text, calls, soup, elem, docx, page_vars, main_vars, hash_seed, chunk_vars>>

\* main: "if not path.exists()": print the error, exit_code = 1, continue
MainNotFound ==
    /\ AtLoop
    /\ ~cur.exists
    /\ out' = Append(out, ErrorLine("notfound", idx))
    /\ exit_code' = 1
    /\ idx' = idx + 1
    /\ UNCHANGED <<args, pc, results, pdf_text, calls, soup, elem, docx, page_vars, main_vars, hash_seed, chunk_vars>>

\* main: the else branch of the suffix test: print the error, exit_code = 1,
\* continue
MainUnsupported ==
    /\ AtLoop
    /\ cur.exists
    /\ SuffixLower(cur.suffix) \notin {".docx", ".pdf"}
    /\ out' = Append(out, ErrorLine("unsupported", idx))
    /\ exit_code' = 1
    /\ idx' = idx + 1
    /\ UNCHANGED <<args, pc, results, pdf_text, calls, soup, elem, docx, page_vars, main_vars, hash_seed, chunk_vars>>

\* main calls check_docx, Document(path) opens the package, results = []
CheckDocxOpen ==
    /\ AtLoop
    /\ cur.exists
    /\ SuffixLower(cur.suffix) = ".docx"
    /\ cur.opens
    /\ results' = <<>>
    /\ pc' = "heading_styles"
    /\ UNCHANGED <<args, idx, exit_code, pdf_text, calls, out, soup, elem, docx, page_vars, main_vars, hash_seed, chunk_vars>>

\* main calls check_docx and Document(path) raises: nothing in check_docx or
\* main catches it, so it leaves main
CheckDocxRaises ==
    /\ AtLoop
    /\ cur.exists
    /\ SuffixLower(cur.suffix) = ".docx"
    /\ ~cur.opens
    /\ pc' = "raised"
    /\ UNCHANGED <<args, idx, exit_code, results, pdf_text, calls, out, soup, elem, docx, page_vars, main_vars, hash_seed, chunk_vars>>

\* One numbered block of check_docx: append its entry, go to the next block
DocxBlock(at, entry, next) ==
    /\ pc = at
    /\ results' = Append(results, entry)
    /\ pc' = next
    /\ UNCHANGED <<args, idx, exit_code, pdf_text, calls, out, soup, elem, docx, page_vars, main_vars, hash_seed, chunk_vars>>

DocxHeadingStyles == DocxBlock("heading_styles", HeadingStylesCheck(cur.doc), "fonts")
DocxFonts == DocxBlock("fonts", FontsCheck(cur.doc), "tables")
DocxTables == DocxBlock("tables", TablesCheck(cur.doc), "images")
DocxImages == DocxBlock("images", ImagesCheck(cur.doc), "text_colors")
DocxTextColors == DocxBlock("text_colors", TextColorsCheck(cur.doc), "emoji")
DocxEmoji == DocxBlock("emoji", EmojiCheck(cur.doc), "layout")
DocxLayout == DocxBlock("layout", LayoutCheck(cur.doc), "hyperlinks")
DocxHyperlinks == DocxBlock("hyperlinks", HyperlinksCheck(cur.doc), "styles_used")
\* the last block; check_docx returns results to main
DocxStyleUsage == DocxBlock("styles_used", StyleUsageCheck(cur.doc), "print")

\* The text-extraction and page-count blocks, tabulated over the outcomes of
\* the two tools (evaluated once, whatever the number of states)
TextExtractionOf == [proc \in PdfToTextOutcomes |-> TextExtractionCheck(proc)]
ExtractedTextOf == [proc \in PdfToTextOutcomes |-> ExtractedText(proc)]
PageCountOf == [proc \in PdfInfoOutcomes |-> PageCountCheck(proc)]

\* main calls check_pdf: results = []
CheckPdfEnter ==
    /\ AtLoop
    /\ cur.exists
    /\ SuffixLower(cur.suffix) = ".pdf"
    /\ results' = <<>>
    /\ pdf_text' = NoText
    /\ calls' = NoCalls
    /\ pc' = "file_size"
    /\ UNCHANGED <<args, idx, exit_code, out, soup, elem, docx, page_vars, main_vars, hash_seed, chunk_vars>>

\* check_pdf, 1. File size
PdfFileSize ==
    /\ pc = "file_size"
    /\ results' = Append(results, FileSizeCheck(cur.pdf))
    /\ pc' = "text_extraction"
    /\ UNCHANGED <<args, idx, exit_code, pdf_text, calls, out, soup, elem, docx, page_vars, main_vars, hash_seed, chunk_vars>>

\* the extraction run a second time after a timeout
PdfTextExtraction_Retry ==
    /\ pc = "text_extraction"
    /\ calls' = [calls EXCEPT !.pdftotext =
                    IF cur.pdf.pdftotext.kind = "timeout" THEN @ + 2 ELSE @ + 1]
    /\ results' = Append(results, TextExtractionOf[cur.pdf.pdftotext])
    /\ pdf_text' = ExtractedTextOf[cur.pdf.pdftotext]
    /\ pc' = "pdf_emoji"
    /\ UNCHANGED <<args, idx, exit_code, out, soup, elem, docx, page_vars, main_vars, hash_seed, chunk_vars>>

\* check_pdf, 2. Text extraction: one subprocess.run of pdftotext inside the
\* try, one entry whatever its outcome
PdfTextExtraction ==
    /\ pc = "text_extraction"
    /\ calls' = [calls EXCEPT !.pdftotext = @ + 1]
    /\ results' = Append(results, TextExtractionOf[cur.pdf.pdftotext])
    /\ pdf_text' = ExtractedTextOf[cur.pdf.pdftotext]
    /\ pc' = "pdf_emoji"
    /\ UNCHANGED <<args, idx, exit_code, out, soup, elem, docx, page_vars, main_vars, hash_seed, chunk_vars>>

\* the emoji check without its "if pdf_text:"
PdfEmoji_Unguarded ==
    /\ pc = "pdf_emoji"
    /\ results' = Append(results, PdfEmojiCheck(pdf_text.text))
    /\ pc' = "sections"
    /\ UNCHANGED <<args, idx, exit_code, pdf_text, calls, out, soup, elem, docx, page_vars, main_vars, hash_seed, chunk_vars>>

\* check_pdf, 3. Emoji in extracted text, under "if pdf_text:"
PdfEmoji ==
    /\ pc = "pdf_emoji"
    /\ results' = IF Truthy(pdf_text)
                  THEN Append(results, PdfEmojiCheck(pdf_text.text))
                  ELSE results
    /\ pc' = "sections"
    /\ UNCHANGED <<args, idx, exit_code, pdf_text, calls, out, soup, elem, docx, page_vars, main_vars, hash_seed, chunk_vars>>

\* the sections check without its "if pdf_text:"
PdfSections_Unguarded ==
    /\ pc = "sections"
    /\ results' = Append(results, SectionsCheck(pdf_text.text))
    /\ pc' = "page_count"
    /\ UNCHANGED <<args, idx, exit_code, pdf_text, calls, out, soup, elem, docx, page_vars, main_vars, hash_seed, chunk_vars>>

\* check_pdf, 4. Standard sections present, under "if pdf_text:"
PdfSections ==
    /\ pc = "sections"
    /\ results' = IF Truthy(pdf_text)
                  THEN Append(results, SectionsCheck(pdf_text.text))
                  ELSE results
    /\ pc' = "page_count"
    /\ UNCHANGED <<args, idx, exit_code, pdf_text, calls, out, soup, elem, docx, page_vars, main_vars, hash_seed, chunk_vars>>

\* check_pdf, 5. Page count: one subprocess.run of pdfinfo; FileNotFoundError
\* and TimeoutExpired are passed over; check_pdf returns results to main
PdfPageCount ==
    /\ pc = "page_count"
    /\ calls' = [calls EXCEPT !.pdfinfo = @ + 1]
    /\ results' = results \o PageCountOf[cur.pdf.pdfinfo]
    /\ pc' = "print"
    /\ UNCHANGED <<args, idx, exit_code, pdf_text, out, soup, elem, docx, page_vars, main_vars, hash_seed, chunk_vars>>

\* main: print_results(path, results)
MainPrintResults ==
    /\ pc = "print"
    /\ out' = Append(out, print_results(idx, results))
    /\ pc' = "aggregate"
    /\ UNCHANGED <<args, idx, exit_code, results, pdf_text, calls, soup, elem, docx, page_vars, main_vars, hash_seed, chunk_vars>>

\* the aggregation with the last file deciding: exit_code = 1 if any WARN
\* else 0
MainAggregate_LastFileWins ==
    /\ pc = "aggregate"
    /\ exit_code' = IF AnyWarn(results) THEN 1 ELSE 0
    /\ idx' = idx + 1
    /\ pc' = "loop"
    /\ UNCHANGED <<args, results, pdf_text, calls, out, soup, elem, docx, page_vars, main_vars, hash_seed, chunk_vars>>

\* main: "if any(r[0] == "WARN" for r in results): exit_code = 1", and the
\* loop goes to the next argument
MainAggregate ==
    /\ pc = "aggregate"
    /\ exit_code' = IF AnyWarn(results) THEN 1 ELSE exit_code
    /\ idx' = idx + 1
    /\ pc' = "loop"
    /\ UNCHANGED <<args, results, pdf_text, calls, out, soup, elem, docx, page_vars, main_vars, hash_seed, chunk_vars>>

\* main: the loop is over, "return exit_code"
MainReturn ==
    /\ pc = "loop"
    /\ idx > Len(args)
    /\ pc' = "done"
    /\ UNCHANGED <<args, idx, exit_code, results, pdf_text, calls, out, soup, elem, docx, page_vars, main_vars, hash_seed, chunk_vars>>

\* sys.exit(main()): the status the process ends with, once main has
\* returned ("done") or an exception has left it ("raised": the interpreter
\* prints the traceback and exits with status 1)
ExitStatus == IF pc = "raised" THEN 1 ELSE exit_code

Terminated == pc \in {"done", "raised"}

Next ==
    \/ MainNotFound
    \/ MainUnsupported
    \/ CheckDocxOpen
    \/ CheckDocxRaises
    \/ DocxHeadingStyles
    \/ DocxFonts
    \/ DocxTables
    \/ DocxImages
    \/ DocxTextColors
    \/ DocxEmoji
    \/ DocxLayout
    \/ DocxHyperlinks
    \/ DocxStyleUsage
    \/ CheckPdfEnter
    \/ PdfFileSize
    \/ PdfTextExtraction
    \/ PdfEmoji
    \/ PdfSections
    \/ PdfPageCount
    \/ MainPrintResults
    \/ MainAggregate
    \/ MainReturn

\* check_ats.py run on one or more of the sample files
Spec == Init /\ [][Next]_vars

\* check_ats.py run on one file, any file
SpecFile == InitFile /\ [][Next]_vars

\* check_ats.py run on one existing .pdf file: main's path through check_pdf
InitPdf == InitMain({<<f>> : f \in PdfFiles})

NextPdf ==
    \/ CheckPdfEnter
    \/ PdfFileSize
    \/ PdfTextExtraction
    \/ PdfEmoji
    \/ PdfSections
    \/ PdfPageCount
    \/ MainPrintResults
    \/ MainAggregate
    \/ MainReturn

\* The interpreter goes on to the next statement as long as there is one
FairSpecPdf == InitPdf /\ [][NextPdf]_vars /\ WF_vars(NextPdf)

----------------------------------------------------------------------------
(* convert_to_docx.py: create_docx as a state machine                      *)

\* The texts and targets the sample trees are built from: "a", "b", " ",
\* "|" (124), "@" (64), the rocket U+1F680 (128640)
S_a == <<97>>
S_b == <<98>>
S_a_sp == <<97, 32>>
S_sp_b == <<32, 98>>
S_emoji_mid == <<97, 32, 128640, 32, 98>>         \* "a (rocket) b"
S_emoji_end == <<97, 32, 128640>>                 \* "a (rocket)"
S_emoji_b == <<128640, 98>>                       \* "(rocket)b"
S_mail_pipe == <<97, 64, 98, 32, 124, 32>>        \* "a@b | "
S_mail_sp == <<97, 64, 98, 32>>                   \* "a@b "
S_mail_bar == <<97, 64, 98, 32, 124>>             \* "a@b |"
S_a_pipe_b == <<97, 124, 98>>                     \* "a|b"
S_b_a_sp == <<98, 32, 97, 32>>                    \* "b a "
S_sp_b_sp == <<32, 98, 32>>                       \* " b "
S_mail_pipes == <<97, 64, 98, 32, 124, 32, 97, 32, 124, 32>>   \* "a@b | a | "
URL_x == <<104, 116, 116, 112, 115, 58, 47, 47, 120, 46, 99, 111>>   \* "https://x.co"
URL_y == <<104, 116, 116, 112, 115, 58, 47, 47, 121, 46, 99, 111>>   \* "https://y.co"

Str(s) == NavigableString(s)
LinkTo(url, s) == Anchor(url, <<Str(s)>>)

\* The top-level nodes of the sample trees: what the parser gives for
\* headings, paragraphs, contact lines, emphasis lines, lists and for
\* blocks create_docx has no branch for, with the "\n" between blocks
Blocks ==
    { Str(<<NL>>),
      Tag("h1", <<Str(S_emoji_end)>>),
      Tag("h1", <<Str(S_a_sp), LinkTo(URL_x, S_b)>>),
      Tag("h2", <<Str(S_emoji_b)>>),
      Tag("h2", <<>>),
      Tag("h3", <<Str(S_a), Tag("em", <<Str(S_sp_b)>>)>>),
      Tag("p", <<Str(S_a)>>),
      Tag("p", <<Str(S_emoji_mid)>>),
      Tag("p", <<Str(S_a_sp), LinkTo(URL_x, S_b)>>),
      Tag("p", <<LinkTo(URL_x, S_a), Str(<<32>>), LinkTo(URL_x, S_b)>>),
      Tag("p", <<Tag("strong", <<LinkTo(URL_y, S_b)>>), Str(S_sp_b)>>),
      Tag("p", <<Str(S_mail_pipe), LinkTo(URL_x, S_b)>>),
      Tag("p", <<Str(S_mail_pipes), Str(S_emoji_b)>>),
      Tag("p", <<Str(S_mail_pipe), Anchor(URL_y, <<>>)>>),
      Tag("p", <<Str(S_mail_pipe), LinkTo(URL_x, S_a), Str(<<32>>), LinkTo(URL_y, S_b)>>),
      Tag("p", <<Str(S_mail_pipe), Tag("strong", <<LinkTo(URL_y, S_b)>>)>>),
      Tag("p", <<Str(S_mail_sp), LinkTo(URL_x, S_a_pipe_b)>>),
      Tag("p", <<Str(S_mail_pipe), Str(S_b_a_sp), LinkTo(URL_x, S_b)>>),
      Tag("p", <<Str(S_mail_pipe), LinkTo(URL_x, S_sp_b_sp)>>),
      Tag("p", <<Str(S_mail_bar)>>),
      Tag("em", <<Str(S_emoji_end)>>),
      Tag("ul", <<Str(<<NL>>), Tag("li", <<Str(S_emoji_mid)>>), Str(<<NL>>),
                  Tag("li", <<Str(S_b)>>), Str(<<NL>>)>>),
      Tag("ul", <<Tag("li", <<Tag("strong", <<Str(S_a)>>), Str(S_sp_b)>>)>>),
      Tag("ul", <<Tag("li", <<Str(S_a_sp), LinkTo(URL_x, S_b)>>)>>),
      Tag("ul", <<Tag("li", <<Tag("strong", <<Str(S_emoji_end)>>), Str(<<32>>),
                              LinkTo(URL_y, S_b)>>)>>),
      Tag("ol", <<Tag("li", <<Str(S_a)>>)>>),
      Tag("blockquote", <<Tag("p", <<Str(S_b)>>)>>),
      Tag("h4", <<Str(S_a)>>) }

\* soup.children: up to MaxBlocks top-level nodes
Soups == SeqsUpTo(Blocks, MaxBlocks)

\* The state at the entry of the loop of create_docx
InitDocx ==
    /\ args = <<>>
    /\ idx = 1
    /\ pc = "create_docx"
    /\ exit_code = 0
    /\ results = <<>>
    /\ pdf_text = NoText
    /\ calls = NoCalls
    /\ out = <<>>
    /\ soup \in Soups
    /\ elem = 1
    /\ docx = NewDocument
    /\ NoPage
    /\ HasRead("convert_to_docx", <<>>)

element == soup[elem]

InLoop == pc = "create_docx" /\ elem <= Len(soup)

\* The relationships add_hyperlink made for the hyperlinks of a paragraph:
\* relate_to gives one relationship to each target
Targets(p) == {p.content[i].target : i \in {k \in 1..Len(p.content) :
                                               p.content[k].kind = "hyperlink"}}

\* The document with the paragraphs of one block added, and the loop moving on
AddBlock(ps) ==
    /\ docx' = [docx EXCEPT !.paragraphs = @ \o ps,
                            !.rels = @ \cup UNION {Targets(ps[i]) : i \in 1..Len(ps)}]
    /\ elem' = elem + 1
    /\ UNCHANGED <<args, idx, pc, exit_code, results, pdf_text, calls, out, soup, page_vars, main_vars, hash_seed, chunk_vars>>

\* if isinstance(element, str): continue
CreateDocxString ==
    /\ InLoop
    /\ element.name = ""
    /\ AddBlock(<<>>)

CreateDocxH1 ==
    /\ InLoop
    /\ element.name = "h1"
    /\ AddBlock(<<add_heading(strip_emojis(get_text(element)), 1, "CENTER", 20, FALSE)>>)

\* a paragraph that is a contact line, every part of which splits
CreateDocxContact ==
    /\ InLoop
    /\ element.name = "p"
    /\ LET text == strip_emojis(get_text(element))
           parts == ContactParts(text)
       IN  /\ IsContactLine(text)
           /\ \A i \in 1..Len(parts) : ~PartRaises(element, parts[i])
           /\ AddBlock(<<ContactParagraph(element, text, Len(parts))>>)

\* a contact line with a part whose anchor has no text: the split raises,
\* the paragraph holds what the parts before it appended, nothing is saved
CreateDocxContactRaises ==
    /\ InLoop
    /\ element.name = "p"
    /\ LET text == strip_emojis(get_text(element))
           parts == ContactParts(text)
           bad == {i \in 1..Len(parts) : PartRaises(element, parts[i])}
       IN  /\ IsContactLine(text)
           /\ bad # {}
           /\ LET first == CHOOSE i \in bad : \A j \in bad : i <= j
              IN  docx' = [docx EXCEPT !.paragraphs =
                               Append(@, ContactParagraph(element, text, first - 1)),
                             !.rels = @ \cup Targets(ContactParagraph(element, text, first - 1))]
    /\ pc' = "raised"
    /\ UNCHANGED <<args, idx, exit_code, results, pdf_text, calls, out, soup, elem, page_vars, main_vars, hash_seed, chunk_vars>>

\* any other paragraph
CreateDocxParagraph ==
    /\ InLoop
    /\ element.name = "p"
    /\ ~IsContactLine(strip_emojis(get_text(element)))
    /\ AddBlock(<<Paragraph("Normal", "", process_text_with_links(element))>>)

\* p.space_after on the heading is an attribute of the proxy object, not of
\* the paragraph's format
CreateDocxH2 ==
    /\ InLoop
    /\ element.name = "h2"
    /\ AddBlock(<<add_heading(strip_emojis(get_text(element)), 2, "", 14, TRUE)>>)

CreateDocxH3 ==
    /\ InLoop
    /\ element.name = "h3"
    /\ AddBlock(<<add_heading(strip_emojis(get_text(element)), 3, "", 12, TRUE)>>)

CreateDocxEm ==
    /\ InLoop
    /\ element.name = "em"
    /\ AddBlock(<<Paragraph("Normal", "",
                    <<[add_run(strip_emojis(get_text(element)))
                          EXCEPT !.italic = TRUE, !.size = 10]>>)>>)

\* one paragraph for each li under the list
CreateDocxUl ==
    /\ InLoop
    /\ element.name = "ul"
    /\ LET lis == find_all(element, "li")
       IN  AddBlock([i \in 1..Len(lis) |-> ListItemParagraph(lis[i])])

\* an element no branch names adds nothing
CreateDocxOther ==
    /\ InLoop
    /\ element.name \notin {"", "h1", "p", "h2", "h3", "em", "ul"}
    /\ AddBlock(<<>>)

\* doc.save(output_file)
CreateDocxSave ==
    /\ pc = "create_docx"
    /\ elem > Len(soup)
    /\ pc' = "saved"
    /\ output_file' = TRUE
    /\ UNCHANGED <<args, idx, exit_code, results, pdf_text, calls, out, soup, elem, docx,
                   page_vars, tool, md_file, output_dir, hash_seed, chunk_vars>>

NextDocx ==
    \/ CreateDocxString
    \/ CreateDocxH1
    \/ CreateDocxContact
    \/ CreateDocxContactRaises
    \/ CreateDocxParagraph
    \/ CreateDocxH2
    \/ CreateDocxH3
    \/ CreateDocxEm
    \/ CreateDocxUl
    \/ CreateDocxOther
    \/ CreateDocxSave

\* One run of create_docx on one of the sample trees
SpecDocx == InitDocx /\ [][NextDocx]_vars

----------------------------------------------------------------------------
(* convert_to_pdf.py: main from preprocess_markdown to write_pdf           *)

\* The lines the files of the model are written with
L_blank == <<>>
L_text == <<98>>                                  \* "b"
L_text_sp == <<98, 32>>                           \* "b "
L_bold == <<42, 42, 97, 42, 42>>                  \* "**a**"
L_bold_text == <<42, 42, 97, 42, 42, 32, 98>>     \* "**a** b"
L_h1 == <<35, 32, 97>>                            \* "# a"
L_dash == <<45, 32, 98>>                          \* "- b"
L_square == <<9632, 32, 98>>                      \* U+25A0 and " b"
L_emoji == <<97, 32, 128640>>                     \* "a (rocket)"

MdLines ==
    {L_blank, L_text, L_text_sp, L_bold, L_bold_text, L_h1, L_dash, L_square, L_emoji}

\* The lists of lines whose lists are tight and hold no header line: the
\* part of markdown whose markup MarkdownBlocks gives
TightLists(ls) ==
    LET groups == Groups(ls)
    IN  \A k \in 1..Len(groups) :
            IsListGroup(ls, groups[k]) =>
                /\ \A n \in groups[k][1]..groups[k][2] : ~IsHeaderLine(ls[n])
                /\ k < Len(groups) => ~IsListGroup(ls, groups[k + 1])

\* The lists of lines where no line with emphasis follows another: the
\* emphasis of the files is never nested
FlatEmphasis(ls) ==
    \A i \in 1..(Len(ls) - 1) : ~(Contains(ls[i], <<42>>) /\ Contains(ls[i + 1], <<42>>))

\* The files: up to MaxLines lines, joined by "\n"
MdFiles ==
    {Join(ls, <<NL>>) : ls \in {q \in SeqsUpTo(MdLines, MaxLines) \ {<<>>} :
                                    TightLists(q) /\ FlatEmphasis(q)}}

\* The state when main has read the file
InitPage ==
    /\ args = <<>>
    /\ idx = 1
    /\ pc = "preprocess_markdown"
    /\ exit_code = 0
    /\ results = <<>>
    /\ pdf_text = NoText
    /\ calls = NoCalls
    /\ out = <<>>
    /\ soup = <<>>
    /\ elem = 1
    /\ docx = NewDocument
    /\ md_content \in MdFiles
    /\ md_lines = <<>>
    /\ line_no = 0
    /\ processed_lines = <<>>
    /\ html_body = <<>>
    /\ HasRead("convert_to_pdf", md_content)

\* what convert_to_pdf leaves alone
PageFrame ==
    UNCHANGED <<args, idx, exit_code, results, pdf_text, calls, out, soup, elem, docx,
                tool, md_file, output_dir, hash_seed, chunk_vars>>

\* lines = md_content.split("\n"); processed_lines = []; i = 0
PreprocessSplit ==
    /\ pc = "preprocess_markdown"
    /\ md_lines' = SplitChar(md_content, NL)
    /\ processed_lines' = <<>>
    /\ line_no' = 0
    /\ pc' = "while"
    /\ UNCHANGED <<md_content, html_body, output_file>>
    /\ PageFrame

\* the title branch that appends the title only and goes on to the next line
PreprocessPair_TitleOnly ==
    /\ pc = "while"
    /\ line_no < Len(md_lines)
    /\ TakesPair(md_lines, line_no)
    /\ processed_lines' = Append(processed_lines, H3_PREFIX \o md_lines[line_no + 1])
    /\ line_no' = line_no + 1
    /\ UNCHANGED <<pc, md_content, md_lines, html_body, output_file>>
    /\ PageFrame


\* a title line with a subtitle after it: both are appended, i += 2
PreprocessPair ==
    /\ pc = "while"
    /\ line_no < Len(md_lines)
    /\ TakesPair(md_lines, line_no)
    /\ processed_lines' = processed_lines \o
           << H3_PREFIX \o md_lines[line_no + 1],
              <<42>> \o Strip(md_lines[line_no + 2]) \o <<42>> >>
    /\ line_no' = line_no + 2
    /\ UNCHANGED <<pc, md_content, md_lines, html_body, output_file>>
    /\ PageFrame

\* any other line is appended as it is, i += 1
PreprocessLine ==
    /\ pc = "while"
    /\ line_no < Len(md_lines)
    /\ ~TakesPair(md_lines, line_no)
    /\ processed_lines' = Append(processed_lines, md_lines[line_no + 1])
    /\ line_no' = line_no + 1
    /\ UNCHANGED <<pc, md_content, md_lines, html_body, output_file>>
    /\ PageFrame

\* return "\n".join(processed_lines), assigned to md_content by main
PreprocessReturn ==
    /\ pc = "while"
    /\ line_no >= Len(md_lines)
    /\ md_content' = Join(processed_lines, <<NL>>)
    /\ pc' = "create_styled_html"
    /\ UNCHANGED <<md_lines, line_no, processed_lines, html_body, output_file>>
    /\ PageFrame

\* html_body = markdown2.markdown(md_content, ...)
StyledHtmlMarkdown ==
    /\ pc = "create_styled_html"
    /\ html_body' = Markdown(md_content)
    /\ pc' = "strip_emojis"
    /\ UNCHANGED <<md_content, md_lines, line_no, processed_lines, output_file>>
    /\ PageFrame

\* html_body = strip_emojis(html_body)
StyledHtmlStripEmojis ==
    /\ pc = "strip_emojis"
    /\ html_body' = pdf_strip_emojis(html_body)
    /\ pc' = "wrap_header"
    /\ UNCHANGED <<md_content, md_lines, line_no, processed_lines, output_file>>
    /\ PageFrame

\* html_body = re.sub(header_pattern, wrap_header, html_body, count=1, ...)
StyledHtmlWrapHeader ==
    /\ pc = "wrap_header"
    /\ html_body' = WrapHeader(html_body)
    /\ pc' = "write_pdf"
    /\ UNCHANGED <<md_content, md_lines, line_no, processed_lines, output_file>>
    /\ PageFrame

\* HTML(string=html_content).write_pdf(output_file)
WritePdf ==
    /\ pc = "write_pdf"
    /\ pc' = "written"
    /\ output_file' = TRUE
    /\ UNCHANGED page_vars
    /\ PageFrame

NextPage ==
    \/ PreprocessSplit
    \/ PreprocessPair
    \/ PreprocessLine
    \/ PreprocessReturn
    \/ StyledHtmlMarkdown
    \/ StyledHtmlStripEmojis
    \/ StyledHtmlWrapHeader
    \/ WritePdf

\* One run of convert_to_pdf on one of the files
SpecPage == InitPage /\ [][NextPage]_vars

----------------------------------------------------------------------------
(* convert_to_pdf.py: preprocess_markdown on any lines                     *)

\* The texts preprocess_markdown is given: up to MaxLines lines, whatever
\* markdown2 makes of them afterwards
AnyMdFiles == {Join(ls, <<NL>>) : ls \in SeqsUpTo(MdLines, MaxLines) \ {<<>>}}

\* The state when main calls preprocess_markdown
InitPreprocess ==
    /\ args = <<>>
    /\ idx = 1
    /\ pc = "preprocess_markdown"
    /\ exit_code = 0
    /\ results = <<>>
    /\ pdf_text = NoText
    /\ calls = NoCalls
    /\ out = <<>>
    /\ soup = <<>>
    /\ elem = 1
    /\ docx = NewDocument
    /\ md_content \in AnyMdFiles
    /\ md_lines = <<>>
    /\ line_no = 0
    /\ processed_lines = <<>>
    /\ html_body = <<>>
    /\ HasRead("convert_to_pdf", md_content)

NextPreprocess ==
    \/ PreprocessSplit
    \/ PreprocessPair
    \/ PreprocessLine
    \/ PreprocessReturn

\* The interpreter goes on to the next statement of preprocess_markdown as
\* long as there is one
FairSpecPreprocess == InitPreprocess /\ [][NextPreprocess]_vars /\ WF_vars(NextPreprocess)


----------------------------------------------------------------------------
(* convert_to_docx.py and convert_to_pdf.py: main                          *)

\* the suffixes of the paths given to a converter
Suffixes == {".md", ".txt"}

\* create_docx raises on this tree: a contact line has a part whose link
\* has no text
CreateDocxRaises(nodes) ==
    \E k \in 1..Len(nodes) :
        /\ nodes[k].name = "p"
        /\ LET text == strip_emojis(get_text(nodes[k]))
               parts == ContactParts(text)
           IN  /\ IsContactLine(text)
               /\ \E i \in 1..Len(parts) : PartRaises(nodes[k], parts[i])

\* The state when main has parsed its arguments
InitConvert ==
    /\ args = <<>>
    /\ idx = 1
    /\ pc = "main"
    /\ exit_code = 0
    /\ results = <<>>
    /\ pdf_text = NoText
    /\ calls = NoCalls
    /\ out = <<>>
    /\ soup = <<>>
    /\ elem = 1
    /\ docx = NewDocument
    /\ NoPage
    /\ tool \in {"convert_to_docx", "convert_to_pdf"}
    /\ md_file \in {MdFile(TRUE, s, c) : s \in Suffixes, c \in MdFiles}
                       \cup {MdFile(FALSE, s, <<>>) : s \in Suffixes}
    /\ output_dir = FALSE
    /\ output_file = FALSE
    /\ hash_seed = 0
    /\ NoChunks

\* what the steps of main before the conversion leave alone
ConvertFrame ==
    UNCHANGED <<args, idx, results, pdf_text, calls, elem, docx, md_lines, line_no,
                processed_lines, html_body, tool, md_file, hash_seed, chunk_vars>>

\* if not md_file.exists(): print the error; sys.exit(1)
ConvertNotFound ==
    /\ pc = "main"
    /\ ~md_file.exists
    /\ out' = Append(out, ErrorLine("notfound", 1))
    /\ exit_code' = 1
    /\ pc' = "exit"
    /\ UNCHANGED <<soup, md_content, output_dir, output_file>>
    /\ ConvertFrame

\* output_dir.mkdir(parents=True, exist_ok=True)
ConvertMkdir ==
    /\ pc = "main"
    /\ md_file.exists
    /\ output_dir' = TRUE
    /\ pc' = "read"
    /\ UNCHANGED <<out, exit_code, soup, md_content, output_file>>
    /\ ConvertFrame

\* convert_to_docx: soup = parse_markdown(md_file)
ConvertParseMarkdown ==
    /\ pc = "read"
    /\ tool = "convert_to_docx"
    /\ soup' = parse_markdown(md_file.content)
    /\ pc' = "call_create_docx"
    /\ UNCHANGED <<out, exit_code, md_content, output_dir, output_file>>
    /\ ConvertFrame

\* convert_to_docx: create_docx(soup, output_file), which saves the document
\* unless a contact line raises
ConvertCreateDocx ==
    /\ pc = "call_create_docx"
    /\ IF CreateDocxRaises(soup)
       THEN /\ pc' = "raised"
            /\ exit_code' = 1
            /\ UNCHANGED output_file
       ELSE /\ pc' = "created"
            /\ output_file' = TRUE
            /\ UNCHANGED exit_code
    /\ UNCHANGED <<out, soup, md_content, output_dir>>
    /\ ConvertFrame

\* convert_to_pdf: md_content = f.read()
ConvertRead ==
    /\ pc = "read"
    /\ tool = "convert_to_pdf"
    /\ md_content' = md_file.content
    /\ pc' = "preprocess_markdown"
    /\ UNCHANGED <<out, exit_code, soup, output_dir, output_file>>
    /\ ConvertFrame

\* print(f"Successfully created: {output_file}")
ConvertSuccess ==
    /\ pc \in {"created", "written"}
    /\ out' = Append(out, OutLine("created", 1, <<>>, 0, 0, 0, ""))
    /\ pc' = "exit"
    /\ UNCHANGED <<exit_code, soup, md_content, output_dir, output_file>>
    /\ ConvertFrame

NextConvert ==
    \/ ConvertNotFound
    \/ ConvertMkdir
    \/ ConvertParseMarkdown
    \/ ConvertCreateDocx
    \/ ConvertRead
    \/ PreprocessSplit
    \/ PreprocessPair
    \/ PreprocessLine
    \/ PreprocessReturn
    \/ StyledHtmlMarkdown
    \/ StyledHtmlStripEmojis
    \/ StyledHtmlWrapHeader
    \/ WritePdf
    \/ ConvertSuccess

\* One run of a converter on one path
SpecConvert == InitConvert /\ [][NextConvert]_vars

----------------------------------------------------------------------------
(* check_ats.py: one artifact checked by two invocations                   *)

\* Documents whose runs have several fonts and colours
TwoOddFontsDoc ==
    Doc(<<HeadingPara, Para("Normal", <<97>>, <<Run("Comic Sans MS", "FF0000"),
                                                Run("Papyrus", "00FF00")>>)>>,
        0, <<"styles">>, <<SectPr(FALSE, 1)>>)
TwoSafeFontsDoc ==
    Doc(<<HeadingPara, Para("Normal", <<97>>, <<Run("Arial", "000000"),
                                                Run("Georgia", "0000FF")>>)>>,
        0, <<"styles">>, <<SectPr(FALSE, 1)>>)

\* The artifacts that are checked twice: they exist, open and stay as they are
TwiceFiles ==
    {f \in SampleFiles : f.exists /\ (f.opens \/ SuffixLower(f.suffix) = ".pdf")}
        \cup {File(TRUE, ".docx", TRUE, d, NoPdf) : d \in {TwoOddFontsDoc, TwoSafeFontsDoc}}

\* The state when the first invocation has parsed its argument
InitTwice ==
    /\ args \in {<<f>> : f \in TwiceFiles}
    /\ idx = 1
    /\ pc = "loop"
    /\ exit_code = 0
    /\ results = <<>>
    /\ pdf_text = NoText
    /\ calls = NoCalls
    /\ out = <<>>
    /\ soup = <<>>
    /\ elem = 1
    /\ docx = NewDocument
    /\ NoPage
    /\ tool = "check_ats"
    /\ md_file = MdFile(FALSE, "", <<>>)
    /\ output_dir = FALSE
    /\ output_file = FALSE
    /\ hash_seed \in HashSeeds
    /\ NoChunks

\* what the steps of the two invocations leave alone
TwiceFrame ==
    UNCHANGED <<args, idx, pdf_text, calls, soup, elem, docx, page_vars, main_vars,
                chunk_vars>>

\* main: results = check_docx(path) or check_pdf(path)
TwiceCheck ==
    /\ pc = "loop"
    /\ results' = ReportStrings(args[idx], hash_seed)
    /\ pc' = "print"
    /\ UNCHANGED <<exit_code, out, hash_seed>>
    /\ TwiceFrame

\* main: print_results(path, results); exit_code = 1 on a WARN; return
TwicePrintResults ==
    /\ pc = "print"
    /\ out' = Append(out, print_results(idx, results))
    /\ exit_code' = IF \E k \in 1..Len(results) : results[k][1] = "WARN" THEN 1 ELSE 0
    /\ pc' = "done"
    /\ UNCHANGED <<results, hash_seed>>
    /\ TwiceFrame

\* the same command is run a second time: a new process with its own salt
TwiceInvoke ==
    /\ pc = "done"
    /\ Len(out) < 2
    /\ hash_seed' \in HashSeeds
    /\ exit_code' = 0
    /\ results' = <<>>
    /\ pc' = "loop"
    /\ UNCHANGED out
    /\ TwiceFrame

NextTwice ==
    \/ TwiceCheck
    \/ TwicePrintResults
    \/ TwiceInvoke

\* Two invocations of check_ats on one artifact
SpecTwice == InitTwice /\ [][NextTwice]_vars

----------------------------------------------------------------------------
(* check_typos.py: split_into_chunks                                       *)

\* The texts split_into_chunks is given: up to MaxText characters, each an
\* "a" or a newline
TypoTexts == SeqsUpTo({97, NL}, MaxText)

\* The state when split_into_chunks is called with a positive chunk_size
InitChunks ==
    /\ args = <<>>
    /\ idx = 1
    /\ pc = "split_into_chunks"
    /\ exit_code = 0
    /\ results = <<>>
    /\ pdf_text = NoText
    /\ calls = NoCalls
    /\ out = <<>>
    /\ soup = <<>>
    /\ elem = 1
    /\ docx = NewDocument
    /\ NoPage
    /\ tool = "check_typos"
    /\ md_file = MdFile(TRUE, ".md", <<>>)
    /\ output_dir = FALSE
    /\ output_file = FALSE
    /\ hash_seed = 0
    /\ typo_text \in TypoTexts
    /\ chunk_size \in 1..MaxChunkSize
    /\ typo_lines = <<>>
    /\ line_idx = 1
    /\ chunks = <<>>
    /\ current_chunk = <<>>
    /\ current_size = 0

\* what split_into_chunks leaves alone
ChunksFrame ==
    UNCHANGED <<args, idx, exit_code, results, pdf_text, calls, out, soup, elem, docx,
                page_vars, main_vars, hash_seed, typo_text, chunk_size>>

\* lines = text.split("\n"); chunks = []; current_chunk = []; current_size = 0
ChunksSplit ==
    /\ pc = "split_into_chunks"
    /\ typo_lines' = SplitChar(typo_text, NL)
    /\ line_idx' = 1
    /\ chunks' = <<>>
    /\ current_chunk' = <<>>
    /\ current_size' = 0
    /\ pc' = "for"
    /\ ChunksFrame

\* the chunk is closed and dropped together with the line that did not fit
ChunksFlush_DropsLine ==
    /\ pc = "for"
    /\ line_idx <= Len(typo_lines)
    /\ current_size + Len(typo_lines[line_idx]) > chunk_size
    /\ current_chunk # <<>>
    /\ chunks' = Append(chunks, Join(current_chunk, <<NL>>))
    /\ current_chunk' = <<>>
    /\ current_size' = 0
    /\ line_idx' = line_idx + 1
    /\ UNCHANGED <<pc, typo_lines>>
    /\ ChunksFrame

\* the line does not fit and the chunk is not empty: the chunk is closed and
\* the line starts the next one
ChunksFlush ==
    /\ pc = "for"
    /\ line_idx <= Len(typo_lines)
    /\ current_size + Len(typo_lines[line_idx]) > chunk_size
    /\ current_chunk # <<>>
    /\ chunks' = Append(chunks, Join(current_chunk, <<NL>>))
    /\ current_chunk' = <<typo_lines[line_idx]>>
    /\ current_size' = Len(typo_lines[line_idx])
    /\ line_idx' = line_idx + 1
    /\ UNCHANGED <<pc, typo_lines>>
    /\ ChunksFrame

\* otherwise the line is added to the chunk
ChunksAppend ==
    /\ pc = "for"
    /\ line_idx <= Len(typo_lines)
    /\ ~(current_size + Len(typo_lines[line_idx]) > chunk_size /\ current_chunk # <<>>)
    /\ current_chunk' = Append(current_chunk, typo_lines[line_idx])
    /\ current_size' = current_size + Len(typo_lines[line_idx]) + 1
    /\ line_idx' = line_idx + 1
    /\ UNCHANGED <<pc, typo_lines, chunks>>
    /\ ChunksFrame

\* after the loop: the last chunk is closed if it holds a line; return chunks
ChunksReturn ==
    /\ pc = "for"
    /\ line_idx > Len(typo_lines)
    /\ chunks' = IF current_chunk # <<>>
                 THEN Append(chunks, Join(current_chunk, <<NL>>))
                 ELSE chunks
    /\ pc' = "returned"
    /\ UNCHANGED <<typo_lines, line_idx, current_chunk, current_size>>
    /\ ChunksFrame

NextChunks ==
    \/ ChunksSplit
    \/ ChunksFlush
    \/ ChunksAppend
    \/ ChunksReturn

\* One call of split_into_chunks
SpecChunks == InitChunks /\ [][NextChunks]_vars

----------------------------------------------------------------------------
(* Properties of check_ats.py                                              *)

IsDocxArg(f) == f.exists /\ SuffixLower(f.suffix) = ".docx"
IsPdfArg(f) == f.exists /\ SuffixLower(f.suffix) = ".pdf"

\* the statuses and the check names of a report, in order
Statuses(rs) == [i \in 1..Len(rs) |-> rs[i][1]]
Names(rs) == [i \in 1..Len(rs) |-> rs[i][2]]

HasWarn(rs) == \E i \in 1..Len(rs) : rs[i][1] = "WARN"

\* the reports printed for argument i
ReportsOf(i) == {k \in 1..Len(out) : out[k].kind = "report" /\ out[k].arg = i}

\* check_docx or check_pdf has returned its report for the current argument
Returned == pc \in {"print", "aggregate"}

\* C1: when main returns, the exit code is non-zero if and only if some
\* argument was a missing path, had an unsupported extension, or got a report
\* with at least one WARN entry; otherwise it is 0.
C1_ExitCodeIffFailure ==
    pc = "done" =>
        /\ exit_code \in {0, 1}
        /\ exit_code # 0 <=>
              \E i \in 1..Len(args) :
                  \/ ~args[i].exists
                  \/ args[i].exists /\ SuffixLower(args[i].suffix) \notin {".docx", ".pdf"}
                  \/ \E k \in ReportsOf(i) : HasWarn(out[k].entries)

\* C1 witness: main returned non-zero for a clean report followed by a
\* missing path
C1_Witness ==
    /\ pc = "done"
    /\ Len(args) = 2
    /\ exit_code = 1
    /\ ~args[2].exists
    /\ \E k \in ReportsOf(1) : ~HasWarn(out[k].entries)

\* C2: one file's failure never aborts the batch: when the process ends,
\* every argument has been processed in argument order, and every existing
\* .pdf/.docx argument has had its report printed exactly once.
C2_BatchNeverAborted ==
    Terminated =>
        /\ Len(out) = Len(args)
        /\ \A k \in 1..Len(out) : out[k].arg = k
        /\ \A i \in 1..Len(args) :
              (IsDocxArg(args[i]) \/ IsPdfArg(args[i])) => Cardinality(ReportsOf(i)) = 1

\* the report with its SKIP and INFO entries removed, exchanged, and with one
\* more of each
WithoutSkipInfo(rs) == SelectSeq(rs, LAMBDA r : r[1] \notin {"SKIP", "INFO"})
SkipInfoExchanged(rs) ==
    [i \in 1..Len(rs) |->
        IF rs[i][1] = "SKIP" THEN Entry("INFO", rs[i][2], rs[i][3])
        ELSE IF rs[i][1] = "INFO" THEN Entry("SKIP", rs[i][2], rs[i][3])
        ELSE rs[i]]
WithMoreSkipInfo(rs) ==
    <<Entry("SKIP", "x", Detail("", 0, {}))>> \o rs \o <<Entry("INFO", "y", Detail("", 0, {}))>>

\* C3: print_results announces "ATS ready" exactly when no entry is WARN, the
\* file's contribution to the exit code is decided by WARN entries only, and
\* removing, changing or adding SKIP and INFO entries changes neither.
C3_VerdictByWarnOnly ==
    /\ \A k \in 1..Len(out) :
          out[k].kind = "report" =>
              /\ out[k].result = "ATS ready" <=> ~HasWarn(out[k].entries)
              /\ \A rs \in {WithoutSkipInfo(out[k].entries),
                            SkipInfoExchanged(out[k].entries),
                            WithMoreSkipInfo(out[k].entries)} :
                    /\ print_results(out[k].arg, rs).result = out[k].result
                    /\ AnyWarn(rs) <=> AnyWarn(out[k].entries)
    /\ (pc = "done" /\ ReportsOf(1) # {}) =>
          (exit_code # 0 <=> \E k \in ReportsOf(1) : HasWarn(out[k].entries))

\* C3 witness: a report with a SKIP and an INFO-free verdict "ATS ready", and
\* exit code 0
C3_Witness ==
    /\ pc = "done"
    /\ exit_code = 0
    /\ \E k \in 1..Len(out) :
          /\ out[k].kind = "report"
          /\ out[k].result = "ATS ready"
          /\ \E i \in 1..Len(out[k].entries) : out[k].entries[i][1] = "SKIP"

\* the entries of a report with a given check name
EntriesNamed(rs, name) == {i \in 1..Len(rs) : rs[i][2] = name}

\* the status of the one entry with that name ("" when there is none)
StatusOf(rs, name) ==
    IF EntriesNamed(rs, name) = {} THEN ""
    ELSE rs[CHOOSE i \in EntriesNamed(rs, name) : TRUE][1]

PdfReturned == Returned /\ IsPdfArg(cur)
DocxReturned == Returned /\ IsDocxArg(cur)

\* pdfinfo ran, returned 0 and printed a line starting with "Pages:"
PrintsPages(proc) ==
    /\ proc.kind = "ran"
    /\ proc.returncode = 0
    /\ \/ StartsWith(proc.stdout, W_Pages)
       \/ Contains(proc.stdout, <<NL>> \o W_Pages)

TimesOut == idx <= Len(args) /\ IsPdfArg(cur) /\ cur.pdf.pdftotext.kind = "timeout"

\* the state of check_pdf once the extraction has timed out: one "Text
\* extraction" entry, WARN, one run of pdftotext; and once check_pdf has
\* returned, one run of pdfinfo and the page-count entry it gives
C5_AfterTimeout ==
    /\ (TimesOut /\ pc \in {"pdf_emoji", "sections", "page_count", "print", "aggregate"}) =>
          /\ Cardinality(EntriesNamed(results, "Text extraction")) = 1
          /\ StatusOf(results, "Text extraction") = "WARN"
          /\ calls.pdftotext = 1
          /\ Returned =>
                /\ calls.pdfinfo = 1
                /\ Cardinality(EntriesNamed(results, "Page count")) =
                      (IF PrintsPages(cur.pdf.pdfinfo) THEN 1 ELSE 0)
    /\ (pc = "raised") => ~IsPdfArg(cur)

WithText(doc, text) ==
    [doc EXCEPT !.paragraphs = [i \in 1..Len(@) |-> [@[i] EXCEPT !.text = text]]]
WithStyle(doc, style) ==
    [doc EXCEPT !.paragraphs = [i \in 1..Len(@) |-> [@[i] EXCEPT !.style = style]]]
WithFont(doc, font) ==
    [doc EXCEPT !.paragraphs = [i \in 1..Len(@) |->
        [@[i] EXCEPT !.runs = [j \in 1..Len(@) |-> [@[j] EXCEPT !.font = font]]]]]
WithRgb(doc, rgb) ==
    [doc EXCEPT !.paragraphs = [i \in 1..Len(@) |->
        [@[i] EXCEPT !.runs = [j \in 1..Len(@) |-> [@[j] EXCEPT !.rgb = rgb]]]]]

\* the statuses of rs and of the report of doc agree at every entry but those
\* whose position is in except
SameStatusesBut(rs, doc, except) ==
    LET other == Statuses(check_docx(doc))
    IN  \A k \in (1..9) \ except : other[k] = rs[k][1]

\* C7: for an artifact that opens, check_docx returns nine entries, always in
\* the order Heading styles, Fonts, Tables, Images, Text colors, Emoji,
\* Layout, Hyperlinks, Styles used, and the status of an entry depends only
\* on what its own heuristic reads: changing the tables, the relationships,
\* the sections, or the text, style, font or colour of the paragraphs leaves
\* the status of every other entry as it is.
C7_NineIndependentEntries ==
    (pc = "print" /\ IsDocxArg(cur)) =>
        /\ Names(results) = <<"Heading styles", "Fonts", "Tables", "Images", "Text colors",
                              "Emoji", "Layout", "Hyperlinks", "Styles used">>
        /\ \A k \in 1..7 : results[k][1] \in {"PASS", "WARN"}
        /\ \A t \in TableCounts :
              SameStatusesBut(results, [cur.doc EXCEPT !.tables = t], {3})
        /\ \A r \in RelLists :
              SameStatusesBut(results, [cur.doc EXCEPT !.rels = r], {4, 8})
        /\ \A sl \in SectionLists :
              SameStatusesBut(results, [cur.doc EXCEPT !.sections = sl], {7})
        /\ \A text \in {<<97>>, <<97, 128640>>} :
              SameStatusesBut(results, WithText(cur.doc, text), {6})
        /\ \A style \in {"Normal", "Heading 2"} :
              SameStatusesBut(results, WithStyle(cur.doc, style), {1})
        /\ \A font \in {"", "Arial", "Wingdings"} :
              SameStatusesBut(results, WithFont(cur.doc, font), {2})
        /\ \A rgb \in {"", "000000", "0000FF", "00FF00"} :
              SameStatusesBut(results, WithRgb(cur.doc, rgb), {5})

\* C7 witness: a report of nine entries in which neighbouring checks differ
C7_Witness ==
    /\ pc = "print"
    /\ IsDocxArg(cur)
    /\ Statuses(results) =
          <<"WARN", "PASS", "WARN", "PASS", "WARN", "PASS", "WARN", "PASS", "INFO">>

\* a structured artifact with at least one table and one image relationship
IsTableImageArg(f) ==
    /\ IsDocxArg(f)
    /\ f.opens
    /\ f.doc.tables >= 1
    /\ \E j \in 1..Len(f.doc.rels) : f.doc.rels[j] = "image"

\* C8: a structured artifact with at least one table and at least one image
\* relationship is reported WARN on "Tables" and WARN on "Images", and a
\* batch that contains it ends with a non-zero exit status whatever the other
\* files are.
C8_TableAndImageWarn ==
    /\ \A i \in 1..Len(args) :
          IsTableImageArg(args[i]) =>
              /\ \A k \in ReportsOf(i) :
                    /\ StatusOf(out[k].entries, "Tables") = "WARN"
                    /\ StatusOf(out[k].entries, "Images") = "WARN"
              /\ pc = "done" => ReportsOf(i) # {}
    /\ (Terminated /\ \E i \in 1..Len(args) : IsTableImageArg(args[i])) => ExitStatus # 0

\* C8 witness: main returned 1 for such an artifact followed by a file whose
\* report has no WARN
C8_Witness ==
    /\ pc = "done"
    /\ Len(args) = 2
    /\ IsTableImageArg(args[1])
    /\ \E k \in ReportsOf(2) : ~HasWarn(out[k].entries)
    /\ exit_code = 1

----------------------------------------------------------------------------
(* Properties of convert_to_docx.py                                        *)

\* every run and hyperlink of the document, in order
AllItems(doc) ==
    Concat([i \in 1..Len(doc.paragraphs) |-> doc.paragraphs[i].content])

\* the targets of the anchors under a node, in document order
RECURSIVE Anchors(_)
Anchors(node) ==
    IF node.name = "a" THEN <<node.href>>
    ELSE Concat([i \in 1..Len(node.children) |-> Anchors(node.children[i])])

SoupAnchors == Concat([i \in 1..Len(soup) |-> Anchors(soup[i])])

\* the targets of the hyperlink elements of the document, in order
Hyperlinks(doc) ==
    LET items == AllItems(doc)
        links == SelectSeq(items, LAMBDA it : it.kind = "hyperlink")
    IN  [i \in 1..Len(links) |-> links[i].target]

HasContactLine ==
    \E i \in 1..Len(soup) :
        soup[i].name = "p" /\ IsContactLine(strip_emojis(get_text(soup[i])))

\* C9: every text span create_docx writes into the document (heading text,
\* paragraph runs, contact-line runs, hyperlink text, list-item runs,
\* emphasis lines) holds no codepoint of the emoji ranges.
C9_NoEmojiWritten ==
    \A i \in 1..Len(AllItems(docx)) : ~EmojiSearch(AllItems(docx)[i].text)

\* C10: when the tree has no contact line, the saved document holds one
\* hyperlink element for each anchor of the tree (in a paragraph, a list
\* item, a heading or nested inline markup), in order, with the anchor's URL.
C10_OneHyperlinkPerLink ==
    (pc = "saved" /\ ~HasContactLine) => Hyperlinks(docx) = SoupAnchors

\* the element the loop rendered last and the paragraph added last
Rendered == soup[elem - 1]
LastParagraph == docx.paragraphs[Len(docx.paragraphs)]

IsContactElement(e) == e.name = "p" /\ IsContactLine(strip_emojis(get_text(e)))

\* the loop has just rendered a contact line: LastParagraph is its paragraph
JustRenderedContact ==
    /\ pc \in {"create_docx", "saved"}
    /\ elem > 1
    /\ IsContactElement(Rendered)

\* the anchor is in the content as a hyperlink with its text and its target
Linked(a, content) ==
    \E k \in 1..Len(content) :
        /\ content[k].kind = "hyperlink"
        /\ content[k].target = a.href
        /\ content[k].text = get_text(a)

\* C11: every anchor of a contact line is in its paragraph as a hyperlink
\* with the anchor's exact target: none is dropped, also when two anchors
\* are in one segment, when the anchor is nested in inline markup or when
\* its text holds a pipe.
C11_EveryContactAnchorLinked ==
    JustRenderedContact =>
        LET anchors == find_all(Rendered, "a")
        IN  \A i \in 1..Len(anchors) : Linked(anchors[i], LastParagraph.content)

\* the run is a " | " separator
IsSeparator(item) == item.kind = "r" /\ item.text = PIPE_RUN

\* the content of a paragraph cut at its separators: one list of items for
\* each segment
SegmentRuns(content) ==
    LET at == {i \in 1..Len(content) : IsSeparator(content[i])}
        nth(k) == IF k = 0 THEN 0
                  ELSE IF k > Cardinality(at) THEN Len(content) + 1
                  ELSE CHOOSE i \in at : Cardinality({j \in at : j <= i}) = k
    IN  [k \in 1..(Cardinality(at) + 1) |-> SubSeq(content, nth(k - 1) + 1, nth(k) - 1)]

Pipes(text) == Cardinality({i \in 1..Len(text) : text[i] = 124})

HasLink(items) == \E k \in 1..Len(items) : items[k].kind = "hyperlink"

\* C12: a contact line whose plain text has N-1 pipes is rendered as N
\* segments in source order with N-1 " | " runs between them: no segment is
\* empty of runs, so no separator leads, trails or follows another; a
\* segment without a hyperlink is the run of its part of the text and a
\* hyperlink's text is in its part.
C12_SegmentsAndSeparators ==
    JustRenderedContact =>
        LET text == strip_emojis(get_text(Rendered))
            parts == ContactParts(text)
            content == LastParagraph.content
            groups == SegmentRuns(content)
        IN  /\ Len(parts) = Pipes(text) + 1
            /\ Cardinality({k \in 1..Len(content) : IsSeparator(content[k])}) = Pipes(text)
            /\ Len(groups) = Len(parts)
            /\ \A k \in 1..Len(groups) :
                 /\ groups[k] # <<>>
                 /\ ~HasLink(groups[k]) =>
                        Len(groups[k]) = 1 /\ groups[k][1].text = parts[k]
                 /\ \A j \in 1..Len(groups[k]) :
                        groups[k][j].kind = "hyperlink" =>
                            Contains(parts[k], Strip(groups[k][j].text))

\* a saved document whose last paragraph is a contact line of three
\* segments, and one of two segments the second of which is empty
C12_Witness ==
    /\ pc = "saved"
    /\ JustRenderedContact
    /\ Pipes(strip_emojis(get_text(Rendered))) = 2
    /\ Len(soup) = 2
    /\ IsContactElement(soup[1])
    /\ ContactParts(strip_emojis(get_text(soup[1])))[2] = <<>>

\* C13: a segment of a contact line carries a hyperlink if and only if some
\* anchor of the source line has visible text contained in the segment, and
\* a segment with no such anchor is one plain run.
C13_LinkIffAnchorInSegment ==
    JustRenderedContact =>
        LET parts == ContactParts(strip_emojis(get_text(Rendered)))
            groups == SegmentRuns(LastParagraph.content)
            anchors == find_all(Rendered, "a")
            anchor_in(part) == \E i \in 1..Len(anchors) :
                                   Contains(part, Strip(get_text(anchors[i])))
        IN  \A k \in 1..Len(parts) :
                /\ HasLink(groups[k]) <=> anchor_in(parts[k])
                /\ ~anchor_in(parts[k]) => groups[k] = <<add_run(parts[k])>>
                                             \/ groups[k] = <<[add_run(parts[k]) EXCEPT !.size = 10]>>

\* the texts of a list of items, joined
TextOf(items) == Concat([k \in 1..Len(items) |-> items[k].text])

\* prefix, hyperlink, suffix: one hyperlink with the anchor's exact text,
\* plain runs around it
PrefixLinkSuffix(items, link_text) ==
    /\ Cardinality({k \in 1..Len(items) : items[k].kind = "hyperlink"}) = 1
    /\ \A k \in 1..Len(items) : items[k].kind = "hyperlink" => items[k].text = link_text
    /\ Len(items) <= 3

\* the segments of the rendered contact line in which an anchor is found
FoundSegments ==
    {k \in 1..Len(ContactParts(strip_emojis(get_text(Rendered)))) :
        LinkElement(Rendered, ContactParts(strip_emojis(get_text(Rendered)))[k]) # <<>>}

\* C14: in every segment in which an anchor is found the runs are
\* prefix, hyperlink with the anchor's exact text, suffix, and their texts
\* joined are the segment's text, however often the anchor's text occurs.
C14_SegmentTextPreserved ==
    JustRenderedContact =>
        LET parts == ContactParts(strip_emojis(get_text(Rendered)))
            groups == SegmentRuns(LastParagraph.content)
        IN  \A k \in FoundSegments :
                /\ PrefixLinkSuffix(groups[k], get_text(LinkElement(Rendered, parts[k])[1]))
                /\ TextOf(groups[k]) = parts[k]

\* C15: rendering never raises on unusual markup: for every tree, also one
\* with a contact line that has an anchor with empty text, create_docx does
\* not leave by an exception.
C15_NeverRaises == pc # "raised"

\* the elements create_docx has a branch for
Recognized == {"h1", "h2", "h3", "p", "em", "ul"}

\* C16: every top-level element that is not a recognized block (an ordered
\* list, a block quote, a level-4 heading) is in the saved document as a
\* plain paragraph holding its text.
C16_UnrecognizedKeptAsParagraph ==
    pc = "saved" =>
        \A i \in 1..Len(soup) :
            (soup[i].name # "" /\ soup[i].name \notin Recognized) =>
                \E k \in 1..Len(docx.paragraphs) :
                    /\ docx.paragraphs[k].style = "Normal"
                    /\ Contains(TextOf(docx.paragraphs[k].content),
                                Strip(get_text(soup[i])))

\* the loop has just rendered a list: the last paragraphs of the document
\* are those of its items
JustRenderedList ==
    /\ pc \in {"create_docx", "saved"}
    /\ elem > 1
    /\ Rendered.name = "ul"

\* a list item that is a bold span followed by plain text
IsBoldThenText(li) ==
    /\ Len(li.children) = 2
    /\ li.children[1].name = "strong"
    /\ Len(li.children[1].children) = 1
    /\ li.children[1].children[1].name = ""
    /\ li.children[2].name = ""
    /\ li.children[2].string # <<>>

\* C20: a list item that is a bold span followed by plain text is rendered
\* as a bold run with the span's text followed by a run that is not bold
\* with the rest of the text unchanged, its leading space included, and no
\* empty run before them.
C20_BoldRunThenRest ==
    JustRenderedList =>
        LET lis == find_all(Rendered, "li")
            first == Len(docx.paragraphs) - Len(lis)
        IN  \A j \in 1..Len(lis) :
                IsBoldThenText(lis[j]) =>
                    LET content == docx.paragraphs[first + j].content
                    IN  /\ Len(content) = 2
                        /\ content[1].text = get_text(lis[j].children[1])
                        /\ content[1].bold
                        /\ content[2].text = lis[j].children[2].string
                        /\ ~content[2].bold

----------------------------------------------------------------------------
(* Properties of convert_to_pdf.py and of the two pipelines together       *)

\* the names of the elements a renderer visits, in order
BlockNames(nodes) ==
    LET tags == SelectSeq(nodes, LAMBDA n : n.name # "")
    IN  [k \in 1..Len(tags) |-> tags[k].name]

\* the file as main read it, before preprocess_markdown
Original == Join(md_lines, <<NL>>)

\* C17: for every input document the sequence of block types the structured
\* renderer visits (the elements parse_markdown gives of the file) equals
\* the sequence the page renderer visits (the elements of the markup made
\* of the preprocessed file); the title/subtitle pair is an h3 and an
\* emphasis paragraph in both.
C17_SameBlockSequence ==
    pc = "create_styled_html" =>
        BlockNames(parse_markdown(Original)) = BlockNames(MarkdownBlocks(md_content))

\* the texts of the elements of the markup
ElementTexts ==
    LET nodes == MarkdownBlocks(md_content)
    IN  {get_text(nodes[k]) : k \in {n \in 1..Len(nodes) : nodes[n].name # ""}}

\* C18: the emoji normalisation of the structured pipeline and the one of
\* the page pipeline return the same string for every text: the same
\* codepoints deleted and the same whitespace kept around them.
C18_SameNormalisation ==
    pc = "strip_emojis" =>
        \A text \in ElementTexts : strip_emojis(text) = pdf_strip_emojis(text)

\* a line wrapped in bold markup: "**" at both ends of its text
IsBoldWrapped(line) ==
    LET text == Strip(line)
    IN  /\ Len(text) > 4
        /\ StartsWith(text, STARS)
        /\ SubSeq(text, Len(text) - 1, Len(text)) = STARS

\* a line that is a heading: it starts with "#"
IsHeading(line) == StartsWith(Strip(line), <<35>>)

\* a line that is a bullet list item: a "-", "*" or "+" marker and a space,
\* or the U+25A0 bullet glyph
IsBulletItem(line) ==
    LET text == Strip(line)
    IN  \/ StartsWith(text, <<9632>>)
        \/ /\ Len(text) >= 2
           /\ text[1] \in {45, 42, 43}
           /\ text[2] = 32

\* the condition of the title/subtitle pair at line i (counted from 0)
IsTitlePair(ls, i) ==
    /\ IsBoldWrapped(ls[i + 1])
    /\ i + 1 < Len(ls)
    /\ Strip(ls[i + 2]) # <<>>
    /\ ~IsHeading(ls[i + 2])
    /\ ~IsBulletItem(ls[i + 2])

\* C19: preprocess_markdown rewrites a pair of adjacent lines into
\* "### " + line and "*" + next line + "*" (the next line without the
\* whitespace around it) if and only if the first line is bold-wrapped and
\* the very next line is non-empty, not a heading and not a bullet list
\* item; in every other case the line is emitted unchanged.
C19_RewriteIffTitlePair ==
    [][(pc = "while" /\ line_no < Len(md_lines)) =>
          IF IsTitlePair(md_lines, line_no)
          THEN processed_lines' = processed_lines \o
                   << H3_PREFIX \o md_lines[line_no + 1],
                      <<42>> \o Strip(md_lines[line_no + 2]) \o <<42>> >>
          ELSE processed_lines' = Append(processed_lines, md_lines[line_no + 1])]_vars

----------------------------------------------------------------------------
(* Properties of the headings of convert_to_docx.py                        *)

HeadingStyleOf(name) ==
    CASE name = "h1" -> "Heading 1"
      [] name = "h2" -> "Heading 2"
      [] name = "h3" -> "Heading 3"

\* the built-in heading styles of the heading elements rendered so far
HeadingsIn ==
    LET heads == SelectSeq(SubSeq(soup, 1, elem - 1),
                           LAMBDA e : e.name \in {"h1", "h2", "h3"})
    IN  [k \in 1..Len(heads) |-> HeadingStyleOf(heads[k].name)]

\* the styles of the heading paragraphs of the document
HeadingsOut ==
    LET paras == SelectSeq(docx.paragraphs, LAMBDA p : StartsWithHeading(p.style))
    IN  [k \in 1..Len(paras) |-> paras[k].style]

\* C21: every top-level h1, h2 or h3 element is rendered as exactly one
\* paragraph in the built-in heading style of its level, and the heading
\* paragraphs are in the order of the elements.
C21_HeadingsInOrder == HeadingsOut = HeadingsIn

\* headings of two levels were rendered and the document saved
C21_Witness ==
    /\ pc = "saved"
    /\ Len(HeadingsIn) = 2
    /\ HeadingsIn[1] # HeadingsIn[2]

----------------------------------------------------------------------------
(* Properties of the main of the converters                                *)

\* the suffix of a markdown file
SupportedSuffixes == {".md"}

\* the input path does not exist or has an unsupported extension
IsRejectedInput == ~md_file.exists \/ md_file.suffix \notin SupportedSuffixes

\* C22: a converter given a path that does not exist or has an unsupported
\* extension never makes the output directory, never writes an output file
\* and exits with a non-zero status.
C22_RejectsBadInput ==
    IsRejectedInput =>
        /\ ~output_dir
        /\ ~output_file
        /\ pc = "exit" => exit_code # 0

----------------------------------------------------------------------------
(* Properties of two invocations of check_ats.py                           *)

\* C23: checking the same unchanged artifact twice yields an identical
\* report: the same entries with the same names, statuses and detail
\* strings in the same order.
C23_SameReportTwice ==
    Len(out) = 2 => out[1].entries = out[2].entries

----------------------------------------------------------------------------
(* Properties of the header box of convert_to_pdf.py                       *)

\* how many times sub occurs in s
Occurrences(s, sub) == Cardinality({i \in 1..Len(s) : At(s, i, sub)})

\* the markup before the header is wrapped
Unwrapped == pdf_strip_emojis(Markdown(md_content))

\* what the header-box container holds, when there is one
BoxContent ==
    LET i == CHOOSE i \in 1..Len(html_body) : At(html_body, i, DIV_OPEN)
        j == CHOOSE j \in 1..Len(html_body) : At(html_body, j, DIV_CLOSE)
    IN  SubSeq(html_body, i + Len(DIV_OPEN), j - 1)

\* where the container starts in the markup, and where the leading h1 does
BoxStart == CHOOSE i \in 1..Len(html_body) : At(html_body, i, DIV_OPEN)
LeadingH1 ==
    CHOOSE i \in 1..Len(Unwrapped) :
        At(Unwrapped, i, H1_OPEN) /\ \A k \in 1..(i - 1) : ~At(Unwrapped, k, H1_OPEN)

\* C24: create_styled_html wraps at most one region in the header-box
\* container; the region starts at the leading h1 of the document and holds
\* that heading and the one or two paragraphs right after it, nothing else;
\* and without the tags of the container the markup is what it was.
C24_HeaderBox ==
    pc = "write_pdf" =>
        /\ Occurrences(html_body, DIV_OPEN) <= 1
        /\ Occurrences(html_body, DIV_OPEN) = Occurrences(html_body, DIV_CLOSE)
        /\ Remove(Remove(html_body, DIV_OPEN), DIV_CLOSE) = Unwrapped
        /\ Occurrences(html_body, DIV_OPEN) = 1 =>
               /\ BoxStart = LeadingH1
               /\ Occurrences(BoxContent, H1_OPEN) = 1
               /\ Occurrences(BoxContent, P_OPEN) \in {1, 2}

----------------------------------------------------------------------------
(* Properties of the colour and information checks of check_docx           *)

\* the colours set on the runs of the artifact, wherever the runs are
ColoursOf(doc) ==
    ({r.rgb : r \in AllRuns(doc)}
        \cup {doc.inner_runs[k].rgb : k \in 1..Len(doc.inner_runs)}) \ {""}

\* C25: the "Text colors" entry of check_docx is PASS if and only if every
\* colour set on a run of the artifact is pure black (000000) or hyperlink
\* blue (0000FF), and WARN otherwise.
C25_TextColorsIffStandard ==
    DocxReturned =>
        StatusOf(results, "Text colors") =
            IF ColoursOf(cur.doc) \subseteq {"000000", "0000FF"} THEN "PASS" ELSE "WARN"


\* C26: the hyperlink count and the summary of the styles used are
\* informational: for every artifact each of the two entries has status
\* INFO, never PASS or WARN, so neither is counted among the passed checks.
C26_InformationalEntries ==
    DocxReturned =>
        /\ StatusOf(results, "Hyperlinks") = "INFO"
        /\ StatusOf(results, "Styles used") = "INFO"

----------------------------------------------------------------------------
(* Properties of the entries of check_pdf                                  *)

\* check_pdf is running on the current argument, or has returned
InCheckPdf ==
    /\ pc \in {"file_size", "text_extraction", "pdf_emoji", "sections", "page_count",
               "print", "aggregate"}
    /\ IsPdfArg(cur)

\* an entry of this name follows a "Text extraction" entry that is PASS
AfterExtractionPass(name) ==
    \A i \in EntriesNamed(results, name) :
        \E j \in 1..(i - 1) :
            results[j][2] = "Text extraction" /\ results[j][1] = "PASS"

\* C27: in every report check_pdf returns, an "Emoji" entry and a "Sections"
\* entry are present if and only if the "Text extraction" entry is PASS;
\* after a WARN or a SKIP neither is there, and neither ever comes before
\* the "Text extraction" entry.
C27_EmojiSectionsIffExtracted ==
    /\ InCheckPdf => AfterExtractionPass("Emoji") /\ AfterExtractionPass("Sections")
    /\ PdfReturned =>
           /\ EntriesNamed(results, "Emoji") # {}
                  <=> StatusOf(results, "Text extraction") = "PASS"
           /\ EntriesNamed(results, "Sections") # {}
                  <=> StatusOf(results, "Text extraction") = "PASS"

\* a returned report with the two entries after a PASS
C27_Witness ==
    /\ PdfReturned
    /\ StatusOf(results, "Text extraction") = "PASS"
    /\ EntriesNamed(results, "Emoji") # {}
    /\ EntriesNamed(results, "Sections") # {}

----------------------------------------------------------------------------
(* Properties of the loop of preprocess_markdown                           *)

TitleOf(line) == H3_PREFIX \o line
WrappedStripped(line) == <<42>> \o Strip(line) \o <<42>>
WrappedAsIs(line) == <<42>> \o line \o <<42>>

\* preprocess_markdown is in its loop or has returned
InPreprocess == pc \in {"while", "create_styled_html"}

\* every line consumed so far gave one output line, at its own position
OneOutputPerLine ==
    /\ line_no <= Len(md_lines)
    /\ Len(processed_lines) = line_no

\* a title is always followed by its subtitle, which is wrapped and not made
\* a title itself; only the line after a title is wrapped
SubtitleNotExamined ==
    \A k \in 1..Len(processed_lines) :
        /\ processed_lines[k] = TitleOf(md_lines[k]) =>
               /\ k < Len(processed_lines)
               /\ processed_lines[k + 1] = WrappedStripped(md_lines[k + 1])
        /\ processed_lines[k] # md_lines[k] /\ processed_lines[k] # TitleOf(md_lines[k]) =>
               k > 1 /\ processed_lines[k - 1] = TitleOf(md_lines[k - 1])

\* the text returned has as many lines as the text given
SameLineCount ==
    pc = "create_styled_html" =>
        /\ line_no = Len(md_lines)
        /\ SplitChar(md_content, NL) = processed_lines

\* C28, as the code has it: preprocess_markdown terminates on every input
\* and consumes every input line exactly once: the output has as many lines
\* as the input, output line k is input line k unchanged, prefixed with
\* "### ", or stripped of the whitespace around it and wrapped in "*", and
\* the line consumed as the subtitle of a pair is never examined as a title.
C28_OneOutputLinePerLine ==
    /\ [](InPreprocess =>
             /\ OneOutputPerLine
             /\ SubtitleNotExamined
             /\ SameLineCount
             /\ \A k \in 1..Len(processed_lines) :
                    processed_lines[k] \in {md_lines[k], TitleOf(md_lines[k]),
                                            WrappedStripped(md_lines[k])})
    /\ <>(pc = "create_styled_html")

\* a pair whose subtitle is itself a title line has been consumed, and
\* preprocess_markdown has returned
C28_Witness ==
    /\ pc = "create_styled_html"
    /\ \E k \in 1..(Len(md_lines) - 1) :
           /\ processed_lines[k] = TitleOf(md_lines[k])
           /\ IsTitleLine(md_lines[k + 1])

\* C28, as it is stated: output line k is input line k unchanged, prefixed
\* with "### ", or wrapped in "*" as it is.
C28_LinesWrappedAsTheyAre ==
    InPreprocess =>
        \A k \in 1..Len(processed_lines) :
            processed_lines[k] \in {md_lines[k], TitleOf(md_lines[k]),
                                    WrappedAsIs(md_lines[k])}

----------------------------------------------------------------------------
(* Properties of split_into_chunks                                         *)

\* the lines of the chunks, chunk after chunk
LinesOfChunks ==
    Concat([k \in 1..Len(chunks) |-> SplitChar(chunks[k], NL)])

\* C29: split_into_chunks is lossless: for every text and every positive
\* chunk_size, the chunks joined with a newline are the text, and every
\* line is in exactly one chunk, in the order of the text.
C29_ChunksLossless ==
    /\ pc = "for" =>
           LinesOfChunks \o current_chunk = SubSeq(typo_lines, 1, line_idx - 1)
    /\ pc = "returned" =>
           /\ Join(chunks, <<NL>>) = typo_text
           /\ LinesOfChunks = SplitChar(typo_text, NL)

\* a text was split into several chunks, one of them of several lines
C29_Witness ==
    /\ pc = "returned"
    /\ Len(chunks) > 1
    /\ \E k \in 1..Len(chunks) : Contains(chunks[k], <<NL>>)

\* C30: for every text and every positive chunk_size, a chunk of more than
\* one line is at most chunk_size long, its newlines included; only a chunk
\* of one line can be longer.
C30_ChunksWithinSize ==
    \A k \in 1..Len(chunks) :
        Contains(chunks[k], <<NL>>) => Len(chunks[k]) <= chunk_size

====
